---- MODULE Spec2Model ----
(***************************************************************************)
(* State machine of the Mindo diagram editor (src/App.tsx): the node and   *)
(* edge collections, the history stacks, the selection, the pointer        *)
(* gestures and the idea-expansion request, with the geometry helpers of   *)
(* src/utils/geometry.ts the gestures rely on.                             *)
(*                                                                         *)
(* Conventions.  An optional value (null | T) is a sequence: <<>> is null, *)
(* <<v>> is v.  An optional id is a number, 0 standing for null/undefined. *)
(* Ids produced by generateId() are fresh; the model draws them from the   *)
(* counter nextId.  Coordinates are integers; the container rectangle is   *)
(* at the screen origin, so clientX - rect.left = clientX.                 *)
(***************************************************************************)
EXTENDS Integers, Sequences, FiniteSets, TLC

\* ------------------------------------------------------------------ bounds

\* Most checkpoints the model lets the past stack hold.
MaxPast == 2

\* Highest id the fresh-id counter hands out.
MaxId == 7

\* Most suggestions one idea-expansion answer carries in the model.
MaxSuggestions == 1

\* Most handler runs (events) of one behaviour, per specification.
HistorySteps == 5

EdgeSteps == 6

SelectSteps == 5

GroupSteps == 5

ComposeSteps == 7

GestureSteps == 5

AiSteps == 5

EditSteps == 4

ZoomSteps == 4

GeometrySteps == 2

PathSteps == 4

StartSteps == 3

DragSteps == 5

ResizeSteps == 4

ReconnectSteps == 6

LegacySteps == 4

AiLiveSteps == 5

StepSteps == 4

LayoutSteps == 6

\* ------------------------------------------------------- program constants

SnapThreshold == 50

NewNodeWidth == 100

NewNodeHeight == 80

NewNodeOffsetX == 50

NewNodeOffsetY == 40

GroupGap == 20

CreatePadding == 40

RecalcPadding == 30

TitleOffset == 40

AiRadius == 350

AiShiftX == 100

AiNodeSize == 120

MinResizeWidth == 100

MinResizeHeight == 50

\* App.tsx handleWheel and the toolbar: the range of scale (0.1 to 5), the
\* zoom step of the buttons (0.2), the wheel sensitivity (0.001 per unit of
\* deltaY) and the offsets of the reset position
MinScale == 10

MaxScale == 500

ZoomStep == 20

WheelUnit == 1000

ResetOffsetX == 150

ResetOffsetY == 50

\* geometry.ts getStepPath: the standoff of a step path; getEdgePath: the
\* largest control offset of a cubic curve
StepOffset == 20

MaxControlOffset == 100

\* The size of the container element of the canvas
ClientWidth == 800

ClientHeight == 600

\* ------------------------------------------------------------------- state

VARIABLES
    nodes,             \* useState nodes: sequence of node records
    edges,             \* useState edges: sequence of edge records
    transform,         \* useState transform: [x, y, scale]
    past,              \* useState past: sequence of HistoryState
    future,            \* useState future: sequence of HistoryState
    selectedNodeIds,   \* useState selectedNodeIds: set of ids
    selectedEdgeId,    \* useState selectedEdgeId: id or 0
    draggingNodeId,    \* useState draggingNodeId: id or 0
    selectionBox,      \* useState selectionBox: optional [start, end]
    connectionStart,   \* useState connectionStart: optional [nodeId, handle]
    snapPreview,       \* useState snapPreview: optional [nodeId, handle]
    reconnectingEdge,  \* useState reconnectingEdge: optional [edgeId, which]
    isPanning,         \* useState isPanning
    isAiLoading,       \* useState isAiLoading
    dragStart,         \* dragStartRef.current
    itemStart,         \* itemStartRef.current
    initialNodes,      \* initialNodesRef.current
    raf,               \* rafRef with the pointer position its frame captured
    aiCall,            \* pending handleAiExpand continuation: its closure
    nextId,            \* next fresh id of generateId()
    stepsLeft,         \* history variable: how many more handlers may run
    lastOp,            \* history variable: the handler that ran last
    chain              \* history variable: action / undo / redo bookkeeping

vars == <<nodes, edges, transform, past, future, selectedNodeIds, selectedEdgeId,
          draggingNodeId, selectionBox, connectionStart, snapPreview,
          reconnectingEdge, isPanning, isAiLoading, dragStart, itemStart,
          initialNodes, raf, aiCall, nextId, stepsLeft, lastOp, chain>>

\* ----------------------------------------------------------------- helpers

Pos(px, py) == [x |-> px, y |-> py]

Abs(v) == IF v < 0 THEN 0 - v ELSE v

Min2(a, b) == IF a < b THEN a ELSE b

Max2(a, b) == IF a > b THEN a ELSE b

SeqIndices(s) == 1..Len(s)

\* Array.prototype.filter
FilterSeq(s, keep(_)) == SelectSeq(s, keep)

\* Array.prototype.map
MapSeq(s, f(_)) == [i \in SeqIndices(s) |-> f(s[i])]

\* Array.prototype.find as an optional value: the first element that matches.
FindFirst(s, hit(_)) ==
    LET found == SelectSeq(s, hit)
    IN  IF found = <<>> THEN <<>> ELSE <<found[1]>>

NodeIds(ns) == {ns[i].id : i \in SeqIndices(ns)}

EdgeIds(es) == {es[i].id : i \in SeqIndices(es)}

MinOver(S) == CHOOSE m \in S : \A v \in S : m <= v

MaxOver(S) == CHOOSE m \in S : \A v \in S : m >= v

\* types.ts MindMapNode; parentId 0 is undefined
MkNode(id, type, title, content, x, y, width, height, color, parentId) ==
    [id |-> id, type |-> type, title |-> title, content |-> content,
     x |-> x, y |-> y, width |-> width, height |-> height,
     color |-> color, parentId |-> parentId]

\* types.ts MindMapEdge
MkEdge(id, from, to, fromHandle, toHandle, style) ==
    [id |-> id, from |-> from, to |-> to, fromHandle |-> fromHandle,
     toHandle |-> toHandle, style |-> style]

\* ---------------------------------------------------------------- geometry

Handles == <<"top", "right", "bottom", "left">>

\* geometry.ts getHandlePosition, in doubled coordinates (2x, 2y): the
\* midpoints of the sides are halves when width or height is odd.
HandlePosition2(node, handle) ==
    CASE handle = "top"    -> Pos(2 * node.x + node.width, 2 * node.y)
      [] handle = "right"  -> Pos(2 * (node.x + node.width), 2 * node.y + node.height)
      [] handle = "bottom" -> Pos(2 * node.x + node.width, 2 * (node.y + node.height))
      [] handle = "left"   -> Pos(2 * node.x, 2 * node.y + node.height)
      [] OTHER             -> Pos(2 * node.x + node.width, 2 * node.y + node.height)

\* geometry.ts getCenter, in doubled coordinates
Center2(node) == Pos(2 * node.x + node.width, 2 * node.y + node.height)

\* Squared distance between a handle and a point, both doubled (4 * dist^2).
Dist2Sq(node, handle, point) ==
    LET hp == HandlePosition2(node, handle)
        dx == hp.x - 2 * point.x
        dy == hp.y - 2 * point.y
    IN  dx * dx + dy * dy

\* A scan that skips no node.
CandidatesOfAll(ns, excludeNodeId) ==
    [k \in 1..(4 * Len(ns)) |->
        [node |-> ns[((k - 1) \div 4) + 1], handle |-> Handles[((k - 1) % 4) + 1]]]

\* The handles getNearestHandle scans, in its iteration order: node list
\* order, then top, right, bottom, left; the excluded node is skipped.
Candidates(ns, excludeNodeId) ==
    LET all == [k \in 1..(4 * Len(ns)) |->
                   [node |-> ns[((k - 1) \div 4) + 1], handle |-> Handles[((k - 1) % 4) + 1]]]
    IN  FilterSeq(all, LAMBDA c : c.node.id # excludeNodeId)

\* The loop of getNearestHandle: closest so far, replaced on dist < threshold
\* and dist < closest.dist (strictly).
RECURSIVE ScanHandles(_, _, _, _)
ScanHandles(cands, point, threshold, closest) ==
    IF cands = <<>> THEN closest
    ELSE LET c == Head(cands)
             d == Dist2Sq(c.node, c.handle, point)
             better == /\ d < 4 * threshold * threshold
                       /\ (closest = <<>> \/ d < closest[1].dist)
         IN  ScanHandles(Tail(cands), point, threshold,
                         IF better THEN <<[nodeId |-> c.node.id, handle |-> c.handle, dist |-> d]>>
                         ELSE closest)

\* A scan in which the last of several equally near handles wins.
getNearestHandleLastWins(point, ns, excludeNodeId, threshold) ==
    LET cands   == Candidates(ns, excludeNodeId)
        closest == ScanHandles([k \in 1..Len(cands) |-> cands[Len(cands) + 1 - k]],
                               point, threshold, <<>>)
    IN  IF closest = <<>> THEN <<>>
        ELSE <<[nodeId |-> closest[1].nodeId, handle |-> closest[1].handle]>>

\* geometry.ts getNearestHandle
getNearestHandle(point, ns, excludeNodeId, threshold) ==
    LET closest == ScanHandles(Candidates(ns, excludeNodeId), point, threshold, <<>>)
    IN  IF closest = <<>> THEN <<>>
        ELSE <<[nodeId |-> closest[1].nodeId, handle |-> closest[1].handle]>>

\* ------------------------------------------------------------------- paths

\* Path coordinates are kept in quarters (4x, 4y): handle positions are
\* halves and getStepPath halves their sums.
PathUnit == 4

InPathUnits(p) == Pos(PathUnit * p.x, PathUnit * p.y)

\* A handle position that is the centre of the node for every side.
HandlePositionCentre(node, handle) ==
    Pos(2 * (2 * node.x + node.width), 2 * (2 * node.y + node.height))

\* geometry.ts getHandlePosition, in path units
getHandlePosition(node, handle) ==
    Pos(2 * HandlePosition2(node, handle).x, 2 * HandlePosition2(node, handle).y)

\* One command of an SVG path string: its letter and its points.
PathCmd(letter, points) == [cmd |-> letter, points |-> points]

\* A point moved by d along the outward axis of a handle side, as the
\* switches of getStepPath and getEdgePath do.
Outward(p, handle, d) ==
    CASE handle = "top"    -> Pos(p.x, p.y - d)
      [] handle = "bottom" -> Pos(p.x, p.y + d)
      [] handle = "left"   -> Pos(p.x - d, p.y)
      [] handle = "right"  -> Pos(p.x + d, p.y)
      [] OTHER             -> p

IsVertical(handle) == handle \in {"top", "bottom"}

\* A step path that joins the two standoff points directly.
getStepPathDirect(start, end, sourceHandle, targetHandle) ==
    <<PathCmd("M", <<start>>),
      PathCmd("L", <<Outward(start, sourceHandle, PathUnit * StepOffset)>>),
      PathCmd("L", <<Outward(end, targetHandle, PathUnit * StepOffset)>>),
      PathCmd("L", <<end>>)>>

\* geometry.ts getStepPath
getStepPath(start, end, sourceHandle, targetHandle) ==
    LET pStart == Outward(start, sourceHandle, PathUnit * StepOffset)
        pEnd   == Outward(end, targetHandle, PathUnit * StepOffset)
        midX   == (pStart.x + pEnd.x) \div 2
        midY   == (pStart.y + pEnd.y) \div 2
        corner == IF IsVertical(sourceHandle) = IsVertical(targetHandle)
                  THEN IF IsVertical(sourceHandle)
                       THEN <<PathCmd("L", <<Pos(pStart.x, midY)>>),
                              PathCmd("L", <<Pos(pEnd.x, midY)>>)>>
                       ELSE <<PathCmd("L", <<Pos(midX, pStart.y)>>),
                              PathCmd("L", <<Pos(midX, pEnd.y)>>)>>
                  ELSE IF IsVertical(sourceHandle)
                       THEN <<PathCmd("L", <<Pos(pStart.x, pEnd.y)>>)>>
                       ELSE <<PathCmd("L", <<Pos(pEnd.x, pStart.y)>>)>>
    IN  <<PathCmd("M", <<start>>), PathCmd("L", <<pStart>>)>> \o corner
            \o <<PathCmd("L", <<pEnd>>), PathCmd("L", <<end>>)>>

\* geometry.ts getPolylinePath
getPolylinePath(start, end, breakpoints) ==
    <<PathCmd("M", <<start>>)>>
        \o [i \in 1..Len(breakpoints) |-> PathCmd("L", <<breakpoints[i]>>)]
        \o <<PathCmd("L", <<end>>)>>

\* Math.sqrt rounded down, by bisection between lo and hi
RECURSIVE SqrtBetween(_, _, _)
SqrtBetween(n, lo, hi) ==
    IF lo >= hi THEN lo
    ELSE LET mid == (lo + hi + 1) \div 2
         IN  IF mid * mid <= n THEN SqrtBetween(n, mid, hi) ELSE SqrtBetween(n, lo, mid - 1)

FloorSqrt(n) == SqrtBetween(n, 0, Min2(n, 46340))

\* geometry.ts getEdgePath; manualControlPoint is empty or one point, type
\* is "" when the edge has none (the parameter then defaults to bezier).
getEdgePath(source, target, sourceHandle, targetHandle, manualControlPoint, type, breakpoints) ==
    LET start == getHandlePosition(source, sourceHandle)
        end   == getHandlePosition(target, targetHandle)
        bps   == [i \in 1..Len(breakpoints) |-> InPathUnits(breakpoints[i])]
        dist  == FloorSqrt((end.x - start.x) * (end.x - start.x)
                           + (end.y - start.y) * (end.y - start.y))
        controlOffset == Min2(dist \div 2, PathUnit * MaxControlOffset)
    IN  IF type = "step" THEN getStepPath(start, end, sourceHandle, targetHandle)
        ELSE IF type = "straight" THEN getPolylinePath(start, end, bps)
        ELSE IF Len(bps) > 0
        THEN IF Len(bps) = 1 /\ manualControlPoint = <<>>
             THEN <<PathCmd("M", <<start>>), PathCmd("Q", <<bps[1], end>>)>>
             ELSE getPolylinePath(start, end, bps)
        ELSE IF manualControlPoint # <<>>
        THEN <<PathCmd("M", <<start>>),
               PathCmd("Q", <<InPathUnits(manualControlPoint[1]), end>>)>>
        ELSE <<PathCmd("M", <<start>>),
               PathCmd("C", <<Outward(start, sourceHandle, controlOffset),
                              Outward(end, targetHandle, controlOffset), end>>)>>

\* types.ts MindMapEdge: type, breakpoints and controlPoint are optional; an
\* edge record carries them once an update has written them.
TypeOf(e) == IF "type" \in DOMAIN e THEN e.type ELSE ""

ControlPointOf(e) == IF "controlPoint" \in DOMAIN e THEN e.controlPoint ELSE <<>>

\* EdgeComponent: breakpoints = edge.breakpoints || (edge.controlPoint ?
\* [edge.controlPoint] : [])
BreakpointsOf(e) == IF "breakpoints" \in DOMAIN e THEN e.breakpoints ELSE ControlPointOf(e)

\* EdgeComponent pathD of edge e drawn between the nodes of ns
PathOf(e, ns) ==
    getEdgePath(FindFirst(ns, LAMBDA n : n.id = e.from)[1],
                FindFirst(ns, LAMBDA n : n.id = e.to)[1],
                e.fromHandle, e.toHandle, ControlPointOf(e), TypeOf(e), BreakpointsOf(e))

\* The spread { ...e, ...updates } of updateEdge
Spread(e, updates) ==
    [f \in DOMAIN e \cup DOMAIN updates |-> IF f \in DOMAIN updates THEN updates[f] ELSE e[f]]

\* types.ts ViewportTransform.scale is a number; the model keeps it in
\* hundredths, so that scale 1 is ScaleUnit.
ScaleUnit == 100

\* geometry.ts screenToWorld, rounded down
screenToWorld(p, t) ==
    Pos(((p.x - t.x) * ScaleUnit) \div t.scale, ((p.y - t.y) * ScaleUnit) \div t.scale)

\* -------------------------------------------------------------- data model

IsGroup(n) == n.type = "group"

\* App.tsx updateParentIds: the first group, in list order, whose box holds
\* the node's centre; specificNodeId 0 stands for "not given".
updateParentIds(currentNodes, specificNodeId) ==
    MapSeq(currentNodes, LAMBDA node :
        IF IsGroup(node) THEN node
        ELSE IF specificNodeId # 0 /\ node.id # specificNodeId THEN node
        ELSE LET c == Center2(node)
                 targetGroup == FindFirst(currentNodes, LAMBDA g :
                     /\ IsGroup(g)
                     /\ g.id # node.id
                     /\ c.x >= 2 * g.x /\ c.x <= 2 * (g.x + g.width)
                     /\ c.y >= 2 * g.y /\ c.y <= 2 * (g.y + g.height))
             IN  IF targetGroup # <<>> THEN [node EXCEPT !.parentId = targetGroup[1].id]
                 ELSE [node EXCEPT !.parentId = 0])

ChildrenOf(currentNodes, groupId) ==
    FilterSeq(currentNodes, LAMBDA n : n.parentId = groupId)

\* The box recalculateGroupBounds computes for the children of a group.
PaddedBox(children, padding) ==
    LET idx  == SeqIndices(children)
        minX == MinOver({children[i].x : i \in idx})
        minY == MinOver({children[i].y : i \in idx})
        maxX == MaxOver({children[i].x + children[i].width : i \in idx})
        maxY == MaxOver({children[i].y + children[i].height : i \in idx})
    IN  [x |-> minX - padding,
         y |-> minY - padding - TitleOffset,
         width |-> (maxX - minX) + (padding * 2),
         height |-> (maxY - minY) + (padding * 2) + TitleOffset]

\* The stability test of recalculateGroupBounds: x, width and height are
\* compared with the stored box; y is not.
BoxIsStable(node, box) ==
    /\ Abs(box.x - node.x) < 1
    /\ Abs(box.width - node.width) < 1
    /\ Abs(box.height - node.height) < 1

\* App.tsx recalculateGroupBounds
recalculateGroupBounds(currentNodes) ==
    MapSeq(currentNodes, LAMBDA node :
        IF IsGroup(node)
        THEN LET children == ChildrenOf(currentNodes, node.id)
             IN  IF children = <<>> THEN node
                 ELSE LET box == PaddedBox(children, RecalcPadding)
                      IN  IF BoxIsStable(node, box) THEN node
                          ELSE [node EXCEPT !.x = box.x, !.y = box.y,
                                            !.width = box.width, !.height = box.height]
        ELSE node)

\* ----------------------------------------------------------------- history

\* A checkpoint that keeps the nodes and forgets the edges.
HistoryStateNodesOnly(n, e) == [nodes |-> n, edges |-> <<>>]

\* App.tsx interface HistoryState
HistoryState(n, e) == [nodes |-> n, edges |-> e]

\* The bound on the past stack: k more checkpoints still fit.
CanCheckpoint(k) == Len(past) + k <= MaxPast

\* App.tsx saveHistory: the checkpoint of the current render's collections.
saveHistory ==
    /\ past' = Append(past, HistoryState(nodes, edges))
    /\ future' = <<>>

\* ---------------------------------------------------- history variables

NoSnap == [nodes |-> <<>>, edges |-> <<>>]

\* The collections of the current state, as the history variables keep them.
Snapshot == [nodes |-> nodes, edges |-> edges]

NoChain == [k |-> "none", pre |-> NoSnap, post |-> NoSnap]

\* Handler op ran, on id, with the outcome note; one more event.
Did(op, id, note) ==
    /\ stepsLeft > 0
    /\ stepsLeft' = stepsLeft - 1
    /\ lastOp' = [op |-> op, id |-> id, note |-> note]

\* A discrete checkpointing action ran: remember the collections before it.
Acted == chain' = [k |-> "acted", pre |-> Snapshot, post |-> NoSnap]

Broken == chain' = NoChain

gestureVars == <<draggingNodeId, selectionBox, connectionStart, snapPreview,
                 reconnectingEdge, isPanning, dragStart, itemStart, initialNodes, raf>>

aiVars == <<isAiLoading, aiCall>>

selVars == <<selectedNodeIds, selectedEdgeId>>

\* ------------------------------------------------------------ undo / redo

\* An undo that drops the redo stack when there is nothing to undo.
undoDropsFuture ==
    /\ IF past = <<>>
       THEN future' = <<>> /\ UNCHANGED <<nodes, edges, past>>
       ELSE LET previous == past[Len(past)]
                newPast  == SubSeq(past, 1, Len(past) - 1)
            IN  /\ future' = <<HistoryState(nodes, edges)>> \o future
                /\ nodes' = previous.nodes
                /\ edges' = previous.edges
                /\ past' = newPast
    /\ UNCHANGED <<transform, selVars, gestureVars, aiVars, nextId>>
    /\ Did("undo", 0, IF past = <<>> THEN {"empty"} ELSE {"popped"})
    /\ chain' = IF chain.k = "acted" /\ past # <<>>
                THEN [k |-> "undone", pre |-> chain.pre, post |-> Snapshot]
                ELSE NoChain

\* App.tsx undo
undo ==
    /\ IF past = <<>>
       THEN UNCHANGED <<nodes, edges, past, future>>
       ELSE LET previous == past[Len(past)]
                newPast  == SubSeq(past, 1, Len(past) - 1)
            IN  /\ future' = <<HistoryState(nodes, edges)>> \o future
                /\ nodes' = previous.nodes
                /\ edges' = previous.edges
                /\ past' = newPast
    /\ UNCHANGED <<transform, selVars, gestureVars, aiVars, nextId>>
    /\ Did("undo", 0, IF past = <<>> THEN {"empty"} ELSE {"popped"})
    /\ chain' = IF chain.k = "acted" /\ past # <<>>
                THEN [k |-> "undone", pre |-> chain.pre, post |-> Snapshot]
                ELSE NoChain

\* App.tsx redo
redo ==
    /\ IF future = <<>>
       THEN UNCHANGED <<nodes, edges, past, future>>
       ELSE LET next      == future[1]
                newFuture == Tail(future)
            IN  /\ past' = Append(past, HistoryState(nodes, edges))
                /\ nodes' = next.nodes
                /\ edges' = next.edges
                /\ future' = newFuture
    /\ UNCHANGED <<transform, selVars, gestureVars, aiVars, nextId>>
    /\ Did("redo", 0, IF future = <<>> THEN {"empty"} ELSE {"popped"})
    /\ chain' = IF chain.k = "undone" /\ future # <<>>
                THEN [k |-> "redone", pre |-> chain.pre, post |-> chain.post]
                ELSE NoChain

\* -------------------------------------------------------- discrete actions

\* App.tsx handleDoubleClickCanvas
handleDoubleClickCanvas(p) ==
    /\ CanCheckpoint(1)
    /\ nextId <= MaxId
    /\ LET worldPos == screenToWorld(p, transform)
           newNode  == MkNode(nextId, "node", "new", "",
                              worldPos.x - NewNodeOffsetX, worldPos.y - NewNodeOffsetY,
                              NewNodeWidth, NewNodeHeight, "blue", 0)
       IN  /\ saveHistory
           /\ nodes' = Append(nodes, newNode)
           /\ selectedNodeIds' = {newNode.id}
           /\ selectedEdgeId' = 0
    /\ nextId' = nextId + 1
    /\ UNCHANGED <<edges, transform, gestureVars, aiVars>>
    /\ Did("doubleClick", nextId, {})
    /\ Acted

\* The node toolbar (delete, colours) is rendered for a selected node that is
\* not being dragged (NodeComponent: isSelected && !isDragging).
ToolsShown(id) ==
    /\ id \in NodeIds(nodes)
    /\ id \in selectedNodeIds
    /\ draggingNodeId = 0

\* App.tsx updateNodeData (NodeComponent saveChanges)
updateNodeData(id, title, content) ==
    /\ CanCheckpoint(1)
    /\ id \in NodeIds(nodes)
    /\ saveHistory
    /\ nodes' = MapSeq(nodes, LAMBDA n :
                   IF n.id = id THEN [n EXCEPT !.title = title, !.content = content] ELSE n)
    /\ UNCHANGED <<edges, transform, selVars, gestureVars, aiVars, nextId>>
    /\ Did("updateNodeData", id, {})
    /\ Acted

\* A call of geometry.ts getNearestHandle on the current node list; as in
\* handleGlobalMouseMove the result goes to snapPreview.
NearestHandleCall(point, excludeNodeId, threshold) ==
    /\ snapPreview' = getNearestHandle(point, nodes, excludeNodeId, threshold)
    /\ UNCHANGED <<nodes, edges, transform, past, future, selVars, draggingNodeId,
                   selectionBox, connectionStart, reconnectingEdge, isPanning, dragStart,
                   itemStart, initialNodes, raf, aiVars, nextId>>
    /\ Broken
    /\ Did("getNearestHandle", excludeNodeId, {})

\* ---------------------------------------------------------------- viewport

viewVars == <<nodes, edges, past, future, selVars, gestureVars, aiVars, nextId>>

\* App.tsx handleWheel with the pointer at mouse: with ctrl/meta a zoom about
\* the pointer, otherwise a scroll of the viewport.
handleWheel(ctrlKey, mouse, deltaX, deltaY) ==
    /\ IF ctrlKey
       THEN LET newScale == Min2(Max2((transform.scale * (WheelUnit - deltaY)) \div WheelUnit,
                                       MinScale), MaxScale)
                world    == screenToWorld(mouse, transform)
            IN  transform' = [x |-> mouse.x - (world.x * newScale) \div ScaleUnit,
                              y |-> mouse.y - (world.y * newScale) \div ScaleUnit,
                              scale |-> newScale]
       ELSE transform' = [transform EXCEPT !.x = transform.x - deltaX,
                                           !.y = transform.y - deltaY]
    /\ UNCHANGED viewVars
    /\ Broken
    /\ Did("wheel", 0, {IF ctrlKey THEN "zoom" ELSE "scroll"})

\* Toolbar onZoomIn
onZoomIn ==
    /\ transform' = [transform EXCEPT !.scale = Min2(transform.scale + ZoomStep, MaxScale)]
    /\ UNCHANGED viewVars
    /\ Broken
    /\ Did("zoomIn", 0, {})

\* Toolbar onZoomOut
onZoomOut ==
    /\ transform' = [transform EXCEPT !.scale = Max2(transform.scale - ZoomStep, MinScale)]
    /\ UNCHANGED viewVars
    /\ Broken
    /\ Did("zoomOut", 0, {})

\* Toolbar onFitView: the first node goes to the centre of the container.
onFitView ==
    /\ transform' = [x |-> ClientWidth \div 2 - (IF nodes = <<>> THEN 0 ELSE nodes[1].x),
                     y |-> ClientHeight \div 2 - (IF nodes = <<>> THEN 0 ELSE nodes[1].y),
                     scale |-> ScaleUnit]
    /\ UNCHANGED viewVars
    /\ Broken
    /\ Did("fitView", 0, {})

\* Toolbar onReset
onReset ==
    /\ transform' = [x |-> ClientWidth \div 2 - ResetOffsetX,
                     y |-> ClientHeight \div 2 - ResetOffsetY,
                     scale |-> ScaleUnit]
    /\ UNCHANGED viewVars
    /\ Broken
    /\ Did("reset", 0, {})

\* App.tsx effect on initialData: a (re)loaded document replaces nodes, edges
\* and transform as they are stored; a document without a transform gets the
\* default one. History, selection and gestures are kept.
SyncInitialData(doc, stored) ==
    /\ nodes' = doc.nodes
    /\ edges' = doc.edges
    /\ transform' = IF stored = <<>> THEN [x |-> 0, y |-> 0, scale |-> ScaleUnit]
                    ELSE stored[1]
    /\ nextId' = IF doc.nextId > nextId THEN doc.nextId ELSE nextId
    /\ UNCHANGED <<past, future, selVars, gestureVars, aiVars>>
    /\ Broken
    /\ Did("load", 0, {IF stored = <<>> THEN "default" ELSE "stored"})

\* NodeComponent handleKeyDown in the editor of node id, the inputs holding
\* title and content: Escape and ctrl/meta + Enter both end the editing
\* through saveChanges, that is updateNodeData with the text of the inputs;
\* any other key is left to the input.
handleKeyDown(id, key, title, content) ==
    /\ id \in NodeIds(nodes)
    /\ IF key \in {"Escape", "CtrlEnter"}
       THEN /\ CanCheckpoint(1)
            /\ saveHistory
            /\ nodes' = MapSeq(nodes, LAMBDA n :
                    IF n.id = id THEN [n EXCEPT !.title = title, !.content = content] ELSE n)
            /\ Acted
       ELSE /\ UNCHANGED <<nodes, past, future>>
            /\ Broken
    /\ UNCHANGED <<edges, transform, selVars, gestureVars, aiVars, nextId>>
    /\ Did("keyDown", id, {key})

\* App.tsx updateNodeColor
updateNodeColor(id, color) ==
    /\ CanCheckpoint(1)
    /\ ToolsShown(id)
    /\ saveHistory
    /\ nodes' = MapSeq(nodes, LAMBDA n : IF n.id = id THEN [n EXCEPT !.color = color] ELSE n)
    /\ UNCHANGED <<edges, transform, selVars, gestureVars, aiVars, nextId>>
    /\ Did("updateNodeColor", id, {})
    /\ Acted

\* App.tsx updateNodeResize: no checkpoint, no bounds recomputation
updateNodeResize(id, width, height) ==
    /\ id \in NodeIds(nodes)
    /\ nodes' = MapSeq(nodes, LAMBDA n :
                   IF n.id = id THEN [n EXCEPT !.width = width, !.height = height] ELSE n)
    /\ UNCHANGED <<edges, transform, past, future, selVars, gestureVars, aiVars, nextId>>
    /\ Did("updateNodeResize", id, {})
    /\ Broken

\* NodeComponent ResizeObserver: a node that is not a group reports its
\* rendered size when it is more than 2 away from the stored one.
ResizeObserved(id, width, height) ==
    /\ \E i \in SeqIndices(nodes) :
           /\ nodes[i].id = id
           /\ ~IsGroup(nodes[i])
           /\ (Abs(width - nodes[i].width) > 2 \/ Abs(height - nodes[i].height) > 2)
    /\ updateNodeResize(id, width, height)

\* NodeComponent handleResizeMouseDown, the press on the resize handle of a
\* group: it keeps the start size and listens for moves; no callback of
\* App.tsx is called.
handleResizeMouseDown(id) ==
    /\ \E i \in SeqIndices(nodes) : nodes[i].id = id /\ IsGroup(nodes[i])
    /\ UNCHANGED <<nodes, edges, transform, past, future, selVars, gestureVars, aiVars, nextId>>
    /\ Did("resizeMouseDown", id, {})
    /\ Broken

\* NodeComponent handleResizeMouseDown, a pointer move (dx, dy) away from the
\* press on the resize handle of a group.
handleResizeMouseMove(id, dx, dy) ==
    \E i \in SeqIndices(nodes) :
        /\ nodes[i].id = id
        /\ IsGroup(nodes[i])
        /\ updateNodeResize(id, Max2(MinResizeWidth, nodes[i].width + dx),
                                Max2(MinResizeHeight, nodes[i].height + dy))

\* The collections deleteNode leaves.
NodesWithout(ns, id) == FilterSeq(ns, LAMBDA n : n.id # id)

\* An edge filter that looks at the source end only.
EdgesWithoutSource(es, id) == FilterSeq(es, LAMBDA e : e.from # id)

EdgesWithout(es, id) == FilterSeq(es, LAMBDA e : e.from # id /\ e.to # id)

\* App.tsx deleteNode
deleteNode(id) ==
    /\ CanCheckpoint(1)
    /\ ToolsShown(id)
    /\ saveHistory
    /\ nodes' = NodesWithout(nodes, id)
    /\ edges' = EdgesWithout(edges, id)
    /\ selectedNodeIds' = IF id \in selectedNodeIds THEN selectedNodeIds \ {id}
                          ELSE selectedNodeIds
    /\ UNCHANGED <<transform, selectedEdgeId, gestureVars, aiVars, nextId>>
    /\ Did("deleteNode", id, {})
    /\ Acted

\* App.tsx deleteSelected
deleteSelected ==
    /\ CanCheckpoint(1)
    /\ saveHistory
    /\ LET hasNodes == selectedNodeIds # {}
           edges1   == IF hasNodes
                       THEN FilterSeq(edges, LAMBDA e :
                                e.from \notin selectedNodeIds /\ e.to \notin selectedNodeIds)
                       ELSE edges
       IN  /\ nodes' = IF hasNodes
                       THEN FilterSeq(nodes, LAMBDA n : n.id \notin selectedNodeIds)
                       ELSE nodes
           /\ edges' = IF selectedEdgeId # 0
                       THEN FilterSeq(edges1, LAMBDA e : e.id # selectedEdgeId)
                       ELSE edges1
    /\ selectedNodeIds' = {}
    /\ selectedEdgeId' = 0
    /\ UNCHANGED <<transform, gestureVars, aiVars, nextId>>
    /\ Did("deleteSelected", 0, {})
    /\ Broken

\* App.tsx selectedEdgeObj: the edge menu is rendered for it
SelectedEdgeShown == selectedEdgeId # 0 /\ selectedEdgeId \in EdgeIds(edges)

\* App.tsx updateEdge, with a style update
updateEdge(es, id, style) ==
    MapSeq(es, LAMBDA e : IF e.id = id THEN [e EXCEPT !.style = style] ELSE e)

\* App.tsx EdgeMenu onUpdate: saveHistory(); updateEdge(id, updates)
EdgeMenuUpdate(style) ==
    /\ CanCheckpoint(1)
    /\ SelectedEdgeShown
    /\ saveHistory
    /\ edges' = updateEdge(edges, selectedEdgeId, style)
    /\ UNCHANGED <<nodes, transform, selVars, gestureVars, aiVars, nextId>>
    /\ Did("edgeMenuUpdate", selectedEdgeId, {})
    /\ Acted

\* App.tsx EdgeMenu onDelete
EdgeMenuDelete ==
    /\ CanCheckpoint(1)
    /\ SelectedEdgeShown
    /\ saveHistory
    /\ edges' = FilterSeq(edges, LAMBDA e : e.id # selectedEdgeId)
    /\ UNCHANGED <<nodes, transform, selVars, gestureVars, aiVars, nextId>>
    /\ Did("edgeMenuDelete", selectedEdgeId, {})
    /\ Broken

\* ------------------------------------------------------- groups and align

\* The comparator of handleCreateGroup's sort: a.y - b.y || a.x - b.x
CompareTopLeft(a, b) == IF a.y - b.y # 0 THEN a.y - b.y ELSE a.x - b.x

RECURSIVE InsertSorted(_, _)
InsertSorted(sorted, n) ==
    IF sorted = <<>> THEN <<n>>
    ELSE IF CompareTopLeft(Head(sorted), n) <= 0
         THEN <<Head(sorted)>> \o InsertSorted(Tail(sorted), n)
         ELSE <<n>> \o sorted

\* Array.prototype.sort with that comparator (stable)
RECURSIVE SortTopLeft(_)
SortTopLeft(s) ==
    IF s = <<>> THEN <<>>
    ELSE InsertSorted(SortTopLeft(SubSeq(s, 1, Len(s) - 1)), s[Len(s)])

\* Math.ceil(Math.sqrt(n))
CeilSqrt(n) == CHOOSE c \in 0..n : c * c >= n /\ (c = 0 \/ (c - 1) * (c - 1) < n)

\* The grid loop of handleCreateGroup from position index on (0-based):
\* the layoutMap entries, in order.
RECURSIVE GridLayout(_, _, _, _, _, _, _, _)
GridLayout(sorted, index, columns, minX, minY, currentX, currentY, rowMaxHeight) ==
    IF index >= Len(sorted) THEN <<>>
    ELSE LET node   == sorted[index + 1]
             wrap   == index > 0 /\ index % columns = 0
             cx     == IF wrap THEN 0 ELSE currentX
             cy     == IF wrap THEN currentY + rowMaxHeight + GroupGap ELSE currentY
             rowMax == IF wrap THEN 0 ELSE rowMaxHeight
         IN  <<[id |-> node.id, x |-> minX + cx, y |-> minY + cy,
                width |-> node.width, height |-> node.height]>>
             \o GridLayout(sorted, index + 1, columns, minX, minY,
                           cx + node.width + GroupGap, cy, Max2(rowMax, node.height))

\* A layout that puts all the selected nodes into one row.
LayoutOfOneRow(selectedNodes) ==
    LET sorted == SortTopLeft(selectedNodes)
        idx    == SeqIndices(sorted)
    IN  GridLayout(sorted, 0, Len(sorted),
                   MinOver({sorted[i].x : i \in idx}),
                   MinOver({sorted[i].y : i \in idx}), 0, 0, 0)

\* The layoutMap of handleCreateGroup for the selected nodes.
LayoutOf(selectedNodes) ==
    LET sorted == SortTopLeft(selectedNodes)
        idx    == SeqIndices(sorted)
    IN  GridLayout(sorted, 0, CeilSqrt(Len(sorted)),
                   MinOver({sorted[i].x : i \in idx}),
                   MinOver({sorted[i].y : i \in idx}), 0, 0, 0)

\* A group node built with the padding of recalculateGroupBounds.
GroupNodeTight(newGroupId, layout) ==
    LET idx  == SeqIndices(layout)
        gMinX == MinOver({layout[i].x : i \in idx})
        gMinY == MinOver({layout[i].y : i \in idx})
        gMaxX == MaxOver({layout[i].x + layout[i].width : i \in idx})
        gMaxY == MaxOver({layout[i].y + layout[i].height : i \in idx})
    IN  MkNode(newGroupId, "group", "group", "",
               gMinX - RecalcPadding,
               gMinY - RecalcPadding - TitleOffset,
               (gMaxX - gMinX) + (RecalcPadding * 2),
               (gMaxY - gMinY) + (RecalcPadding * 2) + TitleOffset,
               "gray", 0)

\* The group node handleCreateGroup builds around the laid-out nodes.
GroupNodeFor(newGroupId, layout) ==
    LET idx  == SeqIndices(layout)
        gMinX == MinOver({layout[i].x : i \in idx})
        gMinY == MinOver({layout[i].y : i \in idx})
        gMaxX == MaxOver({layout[i].x + layout[i].width : i \in idx})
        gMaxY == MaxOver({layout[i].y + layout[i].height : i \in idx})
    IN  MkNode(newGroupId, "group", "group", "",
               gMinX - CreatePadding,
               gMinY - CreatePadding - TitleOffset,
               (gMaxX - gMinX) + (CreatePadding * 2),
               (gMaxY - gMinY) + (CreatePadding * 2) + TitleOffset,
               "gray", 0)

\* The parentId assignment of handleCreateGroup: every node the selection
\* holds, whatever its type.
AssignGroup(ns, selected, newGroupId) ==
    MapSeq(ns, LAMBDA n : IF n.id \in selected THEN [n EXCEPT !.parentId = newGroupId] ELSE n)

\* App.tsx handleCreateGroup; the toolbar enables it for two or more
\* selected ids (canGroup).
handleCreateGroup ==
    /\ CanCheckpoint(1)
    /\ nextId <= MaxId
    /\ Cardinality(selectedNodeIds) > 1
    /\ saveHistory
    /\ LET selectedNodes == FilterSeq(nodes, LAMBDA n : n.id \in selectedNodeIds)
       IN  IF selectedNodes = <<>>
           THEN UNCHANGED <<nodes, selectedNodeIds, nextId>>
           ELSE LET layout == LayoutOf(selectedNodes)
                    placed == MapSeq(nodes, LAMBDA n :
                                  LET pos == FindFirst(layout, LAMBDA l : l.id = n.id)
                                  IN  IF pos # <<>> THEN [n EXCEPT !.x = pos[1].x, !.y = pos[1].y]
                                      ELSE n)
                    groupNode == GroupNodeFor(nextId, layout)
                IN  /\ nodes' = Append(AssignGroup(placed, selectedNodeIds, nextId), groupNode)
                    /\ selectedNodeIds' = {nextId}
                    /\ nextId' = nextId + 1
    /\ UNCHANGED <<edges, transform, selectedEdgeId, gestureVars, aiVars>>
    /\ Did("createGroup", nextId, {})
    /\ Acted

\* Twice the coordinate sum handleAlign averages: the centres of the
\* selected nodes along the axis, doubled.
CentreSum2(selectedNodes, direction) ==
    LET RECURSIVE Sum(_)
        Sum(i) == IF i = 0 THEN 0
                  ELSE Sum(i - 1) + (IF direction = "horizontal"
                                     THEN 2 * selectedNodes[i].y + selectedNodes[i].height
                                     ELSE 2 * selectedNodes[i].x + selectedNodes[i].width)
    IN  Sum(Len(selectedNodes))

\* The coordinate handleAlign gives node n: avg - size / 2.
AlignedCoord(n, sum2, count, direction) ==
    ((sum2 \div count) - (IF direction = "horizontal" THEN n.height ELSE n.width)) \div 2

\* The mean and the new coordinates are integers (the model's coordinates
\* are integers; other selections are not drawn).
AlignExact(selectedNodes, direction) ==
    LET sum2 == CentreSum2(selectedNodes, direction)
        k    == Len(selectedNodes)
    IN  /\ sum2 % k = 0
        /\ \A i \in SeqIndices(selectedNodes) :
              ((sum2 \div k) - (IF direction = "horizontal" THEN selectedNodes[i].height
                                ELSE selectedNodes[i].width)) % 2 = 0

\* App.tsx handleAlign; the toolbar shows it for two or more selected ids
handleAlign(direction) ==
    /\ CanCheckpoint(1)
    /\ Cardinality(selectedNodeIds) >= 2
    /\ saveHistory
    /\ LET selectedNodes == FilterSeq(nodes, LAMBDA n : n.id \in selectedNodeIds)
       IN  IF selectedNodes = <<>>
           THEN UNCHANGED nodes
           ELSE /\ AlignExact(selectedNodes, direction)
                /\ LET sum2 == CentreSum2(selectedNodes, direction)
                       k    == Len(selectedNodes)
                   IN  nodes' = MapSeq(nodes, LAMBDA n :
                           IF n.id \in selectedNodeIds
                           THEN IF direction = "horizontal"
                                THEN [n EXCEPT !.y = AlignedCoord(n, sum2, k, direction)]
                                ELSE [n EXCEPT !.x = AlignedCoord(n, sum2, k, direction)]
                           ELSE n)
    /\ UNCHANGED <<edges, transform, selVars, gestureVars, aiVars, nextId>>
    /\ Did("align", 0, {direction})
    /\ Acted

\* ------------------------------------------------------------ pointer down

\* App.tsx handleMouseDownCanvas: pan is button 1 or ctrl/meta + button 0,
\* otherwise button 0 opens the selection rectangle.
handleMouseDownCanvas(p, pan, shiftKey) ==
    /\ IF pan
       THEN /\ isPanning' = TRUE
            /\ dragStart' = p
            /\ itemStart' = Pos(transform.x, transform.y)
            /\ UNCHANGED <<selVars, selectionBox>>
       ELSE /\ IF ~shiftKey
               THEN selectedNodeIds' = {} /\ selectedEdgeId' = 0
               ELSE UNCHANGED selVars
            /\ selectionBox' = <<[start |-> p, end |-> p]>>
            /\ UNCHANGED <<isPanning, dragStart, itemStart>>
    /\ UNCHANGED <<nodes, edges, transform, past, future, draggingNodeId, connectionStart,
                   snapPreview, reconnectingEdge, initialNodes, raf, aiVars, nextId>>
    /\ Did("mouseDownCanvas", 0, IF pan THEN {"pan"} ELSE IF shiftKey THEN {"shift"} ELSE {})
    /\ Broken

\* App.tsx handleNodeMouseDown
handleNodeMouseDown(id, p, shiftKey) ==
    /\ id \in NodeIds(nodes)
    /\ IF shiftKey
       THEN selectedNodeIds' = IF id \in selectedNodeIds THEN selectedNodeIds \ {id}
                               ELSE selectedNodeIds \cup {id}
       ELSE selectedNodeIds' = IF id \notin selectedNodeIds THEN {id} ELSE selectedNodeIds
    /\ selectedEdgeId' = 0
    /\ draggingNodeId' = id
    /\ dragStart' = p
    /\ initialNodes' = nodes
    /\ UNCHANGED <<nodes, edges, transform, past, future, selectionBox, connectionStart,
                   snapPreview, reconnectingEdge, isPanning, itemStart, raf, aiVars, nextId>>
    /\ Did("nodeMouseDown", id, IF shiftKey THEN {"shift"} ELSE {})
    /\ Broken

\* App.tsx render: an edge is drawn only when both its nodes are found.
EdgeShown(e) == e.from \in NodeIds(nodes) /\ e.to \in NodeIds(nodes)

\* App.tsx handleEdgeSelect
handleEdgeSelect(id) ==
    /\ \E i \in SeqIndices(edges) : edges[i].id = id /\ EdgeShown(edges[i])
    /\ selectedEdgeId' = id
    /\ selectedNodeIds' = {}
    /\ UNCHANGED <<nodes, edges, transform, past, future, gestureVars, aiVars, nextId>>
    /\ Did("edgeSelect", id, {})
    /\ Broken

\* App.tsx updateEdge with any updates, on the edge collection es
updateEdgeWith(es, id, updates) ==
    MapSeq(es, LAMBDA e : IF e.id = id THEN Spread(e, updates) ELSE e)

\* EdgeMenu setType, through App.tsx EdgeMenu onUpdate: saveHistory();
\* updateEdge(id, { type })
EdgeMenuSetType(type) ==
    /\ CanCheckpoint(1)
    /\ SelectedEdgeShown
    /\ saveHistory
    /\ edges' = updateEdgeWith(edges, selectedEdgeId, [type |-> type])
    /\ UNCHANGED <<nodes, transform, selVars, gestureVars, aiVars, nextId>>
    /\ Did("edgeMenuSetType", selectedEdgeId, {type})
    /\ Acted

\* EdgeComponent handleDoubleClickLine at screen point p: a breakpoint is
\* appended, a step edge becomes straight; no checkpoint is taken.
handleDoubleClickLine(id, p) ==
    /\ \E i \in SeqIndices(edges) :
          /\ edges[i].id = id
          /\ EdgeShown(edges[i])
          /\ LET e       == edges[i]
                 newType == IF TypeOf(e) = "step" THEN "straight"
                            ELSE IF TypeOf(e) = "" THEN "bezier" ELSE TypeOf(e)
             IN  edges' = updateEdgeWith(edges, id,
                      [type |-> newType,
                       breakpoints |-> Append(BreakpointsOf(e), screenToWorld(p, transform)),
                       controlPoint |-> <<>>])
    /\ UNCHANGED <<nodes, transform, past, future, selVars, gestureVars, aiVars, nextId>>
    /\ Did("doubleClickLine", id, {})
    /\ Broken

\* EdgeComponent render, lines 646-648: the breakpoint markers are drawn
\* for the selected edge unless its routing type is step.
MarkersShown(e) == EdgeShown(e) /\ e.id = selectedEdgeId /\ TypeOf(e) # "step"

\* EdgeComponent handleDoubleClickBreakpoint on the marker of breakpoint
\* index (0-based)
handleDoubleClickBreakpoint(id, index) ==
    /\ \E i \in SeqIndices(edges) :
          /\ edges[i].id = id
          /\ MarkersShown(edges[i])
          /\ index < Len(BreakpointsOf(edges[i]))
          /\ LET bps == BreakpointsOf(edges[i])
             IN  edges' = updateEdgeWith(edges, id,
                      [breakpoints |-> [k \in 1..(Len(bps) - 1) |->
                                           IF k <= index THEN bps[k] ELSE bps[k + 1]]])
    /\ UNCHANGED <<nodes, transform, past, future, selVars, gestureVars, aiVars, nextId>>
    /\ Did("doubleClickBreakpoint", id, {})
    /\ Broken

\* EdgeComponent handleMouseDownBreakpoint, the press on the marker of
\* breakpoint index (0-based): it keeps the point and listens for moves; no
\* callback of App.tsx is called.
handleMouseDownBreakpoint(id, index) ==
    /\ \E i \in SeqIndices(edges) :
          /\ edges[i].id = id
          /\ MarkersShown(edges[i])
          /\ index < Len(BreakpointsOf(edges[i]))
    /\ UNCHANGED <<nodes, edges, transform, past, future, selVars, gestureVars, aiVars, nextId>>
    /\ Did("breakpointMouseDown", id, {})
    /\ Broken

\* EdgeComponent handleMouseDownBreakpoint, a pointer move that takes the
\* pressed breakpoint to world point to (its start plus the scaled delta).
handleBreakpointMouseMove(id, index, to) ==
    /\ \E i \in SeqIndices(edges) :
          /\ edges[i].id = id
          /\ MarkersShown(edges[i])
          /\ index < Len(BreakpointsOf(edges[i]))
          /\ edges' = updateEdgeWith(edges, id,
                 [breakpoints |-> [BreakpointsOf(edges[i]) EXCEPT ![index + 1] = to],
                  controlPoint |-> <<>>])
    /\ UNCHANGED <<nodes, transform, past, future, selVars, gestureVars, aiVars, nextId>>
    /\ Did("breakpointMouseMove", id, {})
    /\ Broken

\* NodeComponent renders the four handles on nodes that are not groups.
HasHandles(id) == \E i \in SeqIndices(nodes) : nodes[i].id = id /\ ~IsGroup(nodes[i])

\* App.tsx handleConnectStart
handleConnectStart(nodeId, handle) ==
    /\ HasHandles(nodeId)
    /\ connectionStart' = <<[nodeId |-> nodeId, handle |-> handle]>>
    /\ UNCHANGED <<nodes, edges, transform, past, future, selVars, draggingNodeId,
                   selectionBox, snapPreview, reconnectingEdge, isPanning, dragStart,
                   itemStart, initialNodes, raf, aiVars, nextId>>
    /\ Did("connectStart", nodeId, {})
    /\ Broken

\* App.tsx handleEdgeReconnectStart: the end markers are drawn for the
\* selected edge while both its nodes exist.
handleEdgeReconnectStart(edgeId, which) ==
    /\ edgeId = selectedEdgeId
    /\ \E i \in SeqIndices(edges) : edges[i].id = edgeId /\ EdgeShown(edges[i])
    /\ reconnectingEdge' = <<[edgeId |-> edgeId, which |-> which]>>
    /\ UNCHANGED <<nodes, edges, transform, past, future, selVars, draggingNodeId,
                   selectionBox, connectionStart, snapPreview, isPanning, dragStart,
                   itemStart, initialNodes, raf, aiVars, nextId>>
    /\ Did("reconnectStart", edgeId, {which})
    /\ Broken

\* --------------------------------------------------------- connect commits

\* The duplicate test of both connect commits: an edge joins a and b, in
\* either direction.
Joined(es, a, b) ==
    \E i \in SeqIndices(es) :
        \/ (es[i].from = a /\ es[i].to = b)
        \/ (es[i].from = b /\ es[i].to = a)

\* The edge a connect commit appends.
NewEdge(id, start, targetId, targetHandle) ==
    MkEdge(id, start.nodeId, targetId, start.handle, targetHandle, "solid")

\* App.tsx handleMouseUp, lines 686-709: the edge collection the connect
\* commit returns from prev.
ConnectCommit(prev, start, snap, id) ==
    IF ~Joined(prev, start.nodeId, snap.nodeId)
    THEN Append(prev, NewEdge(id, start, snap.nodeId, snap.handle))
    ELSE prev

\* App.tsx handleMouseUp, lines 711-721: the reconnect commit
ReconnectCommit(prev, rec, snap) ==
    MapSeq(prev, LAMBDA e :
        IF e.id = rec.edgeId
        THEN IF rec.which = "from"
             THEN [e EXCEPT !.from = snap.nodeId, !.fromHandle = snap.handle]
             ELSE [e EXCEPT !.to = snap.nodeId, !.toHandle = snap.handle]
        ELSE e)

\* App.tsx createConnection, reached from handleConnectEnd: the pointer is
\* released on a handle of targetId, whose handler stops the propagation,
\* so that handleMouseUp does not run for this release.
createConnection(targetId, targetHandle) ==
    /\ HasHandles(targetId)
    /\ LET start == connectionStart
           add   == /\ start # <<>>
                    /\ start[1].nodeId # targetId
                    /\ ~Joined(edges, start[1].nodeId, targetId)
       IN  IF add
           THEN /\ CanCheckpoint(1)
                /\ nextId <= MaxId
                /\ saveHistory
                /\ edges' = Append(edges, NewEdge(nextId, start[1], targetId, targetHandle))
                /\ nextId' = nextId + 1
                /\ Did("createConnection", targetId, {"added"})
                /\ Acted
           ELSE /\ UNCHANGED <<edges, past, future, nextId>>
                /\ Did("createConnection", targetId,
                       IF start = <<>> THEN {"idle"}
                       ELSE IF start[1].nodeId = targetId THEN {"self"} ELSE {"duplicate"})
                /\ Broken
    /\ connectionStart' = <<>>
    /\ snapPreview' = <<>>
    /\ UNCHANGED <<nodes, transform, selVars, draggingNodeId, selectionBox, reconnectingEdge,
                   isPanning, dragStart, itemStart, initialNodes, raf, aiVars>>

\* ------------------------------------------------------------ pointer move

\* App.tsx handleGlobalMouseMove: one frame is requested per pointer move
\* unless one is already pending; the frame keeps the event's position.
handleGlobalMouseMove(p) ==
    /\ raf' = IF raf # <<>> THEN raf ELSE <<p>>
    /\ UNCHANGED <<nodes, edges, transform, past, future, selVars, draggingNodeId,
                   selectionBox, connectionStart, snapPreview, reconnectingEdge, isPanning,
                   dragStart, itemStart, initialNodes, aiVars, nextId>>
    /\ Did("mouseMove", 0, IF raf # <<>> THEN {"dropped"} ELSE {"scheduled"})
    /\ Broken

\* A drag that moves the listed nodes and leaves the children of moved
\* groups where they are.
DragNodesListedOnly(ns, initial, nodesToMove, dx, dy) ==
    MapSeq(ns, LAMBDA n :
        LET start == FindFirst(initial, LAMBDA sn : sn.id = n.id)
        IN  IF n.id \in nodesToMove /\ start # <<>>
            THEN [n EXCEPT !.x = start[1].x + dx, !.y = start[1].y + dy]
            ELSE n)

\* The drag branch of the frame: the nodes after a move by (dx, dy) from
\* the press-time snapshot.
DragNodes(ns, initial, nodesToMove, dx, dy) ==
    MapSeq(ns, LAMBDA n :
        LET start == FindFirst(initial, LAMBDA sn : sn.id = n.id)
            moved == [n EXCEPT !.x = start[1].x + dx, !.y = start[1].y + dy]
        IN  IF n.id \in nodesToMove /\ start # <<>> THEN moved
            ELSE IF n.parentId # 0 /\ n.parentId \in nodesToMove /\ start # <<>> THEN moved
            ELSE n)

\* The node a reconnect gesture keeps fixed: the end that is not dragged
\* ('' when the edge is gone, 0 here).
ExcludedEnd(es, rec) ==
    LET edge == FindFirst(es, LAMBDA ed : ed.id = rec.edgeId)
    IN  IF edge = <<>> THEN 0
        ELSE IF rec.which = "from" THEN edge[1].to ELSE edge[1].from

\* The requestAnimationFrame callback of handleGlobalMouseMove
Frame ==
    /\ raf # <<>>
    /\ raf' = <<>>
    /\ LET client == raf[1]
       IN  IF isPanning
           THEN /\ transform' = [transform EXCEPT
                                    !.x = itemStart.x + (client.x - dragStart.x),
                                    !.y = itemStart.y + (client.y - dragStart.y)]
                /\ UNCHANGED <<nodes, selectionBox, snapPreview>>
                /\ Did("frame", 0, {"pan"})
           ELSE IF selectionBox # <<>>
           THEN /\ selectionBox' = <<[selectionBox[1] EXCEPT !.end = client]>>
                /\ UNCHANGED <<nodes, transform, snapPreview>>
                /\ Did("frame", 0, {"box"})
           ELSE IF draggingNodeId # 0 /\ Len(initialNodes) > 0
           THEN /\ LET dx == ((client.x - dragStart.x) * ScaleUnit) \div transform.scale
                       dy == ((client.y - dragStart.y) * ScaleUnit) \div transform.scale
                       nodesToMove == IF draggingNodeId \in selectedNodeIds
                                      THEN selectedNodeIds ELSE {draggingNodeId}
                   IN  nodes' = DragNodes(nodes, initialNodes, nodesToMove, dx, dy)
                /\ UNCHANGED <<transform, selectionBox, snapPreview>>
                /\ Did("frame", draggingNodeId, {"drag"})
           ELSE IF connectionStart # <<>>
           THEN /\ snapPreview' = getNearestHandle(screenToWorld(client, transform), nodes,
                                                   connectionStart[1].nodeId, SnapThreshold)
                /\ UNCHANGED <<nodes, transform, selectionBox>>
                /\ Did("frame", 0, {"connect"})
           ELSE IF reconnectingEdge # <<>>
           THEN /\ snapPreview' = getNearestHandle(screenToWorld(client, transform), nodes,
                                                   ExcludedEnd(edges, reconnectingEdge[1]),
                                                   SnapThreshold)
                /\ UNCHANGED <<nodes, transform, selectionBox>>
                /\ Did("frame", 0, {"reconnect"})
           ELSE /\ UNCHANGED <<nodes, transform, selectionBox, snapPreview>>
                /\ Did("frame", 0, {"idle"})
    /\ UNCHANGED <<edges, past, future, selVars, draggingNodeId, connectionStart,
                   reconnectingEdge, isPanning, dragStart, itemStart, initialNodes,
                   aiVars, nextId>>
    /\ Broken

\* -------------------------------------------------------------- pointer up

\* The ids handleMouseUp selects for a selection rectangle: the nodes whose
\* box lies fully inside its world-space image.
BoxSelected(box, ns, t) ==
    LET x1 == Min2(box.start.x, box.end.x)
        y1 == Min2(box.start.y, box.end.y)
        x2 == Max2(box.start.x, box.end.x)
        y2 == Max2(box.start.y, box.end.y)
        p1 == screenToWorld(Pos(x1, y1), t)
        p2 == screenToWorld(Pos(x2, y2), t)
        minWX == Min2(p1.x, p2.x)
        minWY == Min2(p1.y, p2.y)
        maxWX == Max2(p1.x, p2.x)
        maxWY == Max2(p1.y, p2.y)
    IN  {ns[i].id : i \in {j \in SeqIndices(ns) :
            /\ ns[j].x >= minWX /\ ns[j].x + ns[j].width <= maxWX
            /\ ns[j].y >= minWY /\ ns[j].y + ns[j].height <= maxWY}}

\* hasMoved of handleMouseUp: some node is away from its press-time position.
HasMoved(ns, initial) ==
    \E i \in SeqIndices(ns) :
        LET init == FindFirst(initial, LAMBDA sn : sn.id = ns[i].id)
        IN  init # <<>> /\ (init[1].x # ns[i].x \/ init[1].y # ns[i].y)

\* The node collection a drag release leaves: reparenting of a single moved
\* node, then the bounds of every group.
DragRelease(prev, draggingId, selected) ==
    LET nodesToCheck == IF draggingId \in selected THEN selected ELSE {draggingId}
        current == IF Cardinality(nodesToCheck) = 1
                   THEN updateParentIds(prev, CHOOSE id \in nodesToCheck : TRUE)
                   ELSE prev
    IN  recalculateGroupBounds(current)

\* App.tsx handleMouseUp.  The refs it reads hold the state of the last
\* render, that is the state before this handler; its updates apply in the
\* order of the code.
handleMouseUp ==
    LET boxOpen  == selectionBox # <<>>
        boxIds   == IF boxOpen THEN BoxSelected(selectionBox[1], nodes, transform) ELSE {}
        connect  == connectionStart # <<>> /\ snapPreview # <<>>
        added    == connect /\ ~Joined(edges, connectionStart[1].nodeId, snapPreview[1].nodeId)
        reconn   == reconnectingEdge # <<>> /\ snapPreview # <<>>
        drag     == draggingNodeId # 0
        moved    == drag /\ HasMoved(nodes, initialNodes)
        here     == HistoryState(nodes, edges)
        past1    == IF added THEN Append(past, here) ELSE past
        past2    == IF reconn THEN Append(past1, here) ELSE past1
        past3    == IF moved THEN Append(past2, HistoryState(initialNodes, edges)) ELSE past2
        edges1   == IF connect
                    THEN ConnectCommit(edges, connectionStart[1], snapPreview[1], nextId)
                    ELSE edges
        edges2   == IF reconn THEN ReconnectCommit(edges1, reconnectingEdge[1], snapPreview[1])
                    ELSE edges1
    IN  /\ Len(past3) <= MaxPast
        /\ added => nextId <= MaxId
        /\ raf' = <<>>
        /\ selectedNodeIds' = IF boxIds # {} THEN boxIds ELSE selectedNodeIds
        /\ selectionBox' = <<>>
        /\ edges' = edges2
        /\ past' = past3
        /\ future' = IF added \/ reconn \/ moved THEN <<>> ELSE future
        /\ nodes' = IF drag THEN DragRelease(nodes, draggingNodeId, selectedNodeIds) ELSE nodes
        /\ nextId' = IF added THEN nextId + 1 ELSE nextId
        /\ isPanning' = FALSE
        /\ draggingNodeId' = 0
        /\ connectionStart' = <<>>
        /\ snapPreview' = <<>>
        /\ reconnectingEdge' = <<>>
        /\ UNCHANGED <<transform, selectedEdgeId, dragStart, itemStart, initialNodes, aiVars>>
        /\ Did("mouseUp", draggingNodeId,
               (IF boxOpen THEN {"box"} ELSE {})
               \cup (IF added THEN {"added"} ELSE {})
               \cup (IF connect /\ ~added THEN {"duplicate"} ELSE {})
               \cup (IF reconn THEN {"reconnected"} ELSE {})
               \cup (IF drag THEN {"drag"} ELSE {})
               \cup (IF moved THEN {"moved"} ELSE {}))
        /\ IF added /\ ~reconn /\ ~drag THEN Acted ELSE Broken

\* ---------------------------------------------------------- idea expansion

\* 350 * cos(h * 22.5 deg) and 350 * sin(h * 22.5 deg), rounded to the
\* nearest integer, for the fan angles (index - (n - 1) / 2) * (PI / 4) of up
\* to four suggestions: h = 2 * index - (n - 1).
FanCos(h) == CASE Abs(h) = 0 -> AiRadius [] Abs(h) = 1 -> 323 [] Abs(h) = 2 -> 247 [] OTHER -> 134

FanSin(h) ==
    LET m == CASE Abs(h) = 0 -> 0 [] Abs(h) = 1 -> 134 [] Abs(h) = 2 -> 247 [] OTHER -> 323
    IN  IF h < 0 THEN 0 - m ELSE m

\* String.prototype.trim() leaves nothing: the titles of the model have no
\* blanks, so only the empty title is blank.
IsBlank(title) == title = ""

\* handleAiExpand passes every early return: one node is selected, no
\* request is pending, the node exists with a title, and the API key is set.
AiStartOk(hasKey) ==
    /\ Cardinality(selectedNodeIds) = 1
    /\ ~isAiLoading
    /\ LET node == FindFirst(nodes, LAMBDA n : n.id \in selectedNodeIds)
       IN  node # <<>> /\ ~IsBlank(node[1].title)
    /\ hasKey

\* What an early return of handleAiExpand does besides returning: the busy
\* return is silent, the others show one message.
AiReturnNote(hasKey) ==
    IF selectedNodeIds = {} THEN {"message", "none"}
    ELSE IF Cardinality(selectedNodeIds) > 1 THEN {"message", "many"}
    ELSE IF isAiLoading THEN {"busy"}
    ELSE IF ~AiStartOk(TRUE) THEN {"message", "untitled"}
    ELSE {"message", "nokey"}

\* App.tsx handleAiExpand, the early returns (lines 852-872)
handleAiExpandReturns(hasKey) ==
    /\ ~AiStartOk(hasKey)
    /\ UNCHANGED <<nodes, edges, transform, past, future, selVars, gestureVars, aiVars, nextId>>
    /\ Did("aiExpand", 0, AiReturnNote(hasKey))
    /\ Broken

\* A handleAiExpand that does not look at the busy flag.
handleAiExpandReentrant ==
    /\ Cardinality(selectedNodeIds) = 1
    /\ LET selectedId == CHOOSE id \in selectedNodeIds : TRUE
           node       == FindFirst(nodes, LAMBDA n : n.id = selectedId)
       IN  /\ node # <<>>
           /\ ~IsBlank(node[1].title)
           /\ aiCall' = Append(aiCall, [node |-> node[1], nodes |-> nodes, edges |-> edges])
    /\ isAiLoading' = TRUE
    /\ UNCHANGED <<nodes, edges, transform, past, future, selVars, gestureVars, nextId>>
    /\ Did("aiExpand", CHOOSE id \in selectedNodeIds : TRUE, {})
    /\ Broken

\* App.tsx handleAiExpand up to the await, with the API key set: the request
\* joins the pending ones and the continuation keeps the node and the
\* collections of this render.
handleAiExpand ==
    /\ Cardinality(selectedNodeIds) = 1
    /\ ~isAiLoading
    /\ LET selectedId == CHOOSE id \in selectedNodeIds : TRUE
           node       == FindFirst(nodes, LAMBDA n : n.id = selectedId)
       IN  /\ node # <<>>
           /\ ~IsBlank(node[1].title)
           /\ aiCall' = Append(aiCall, [node |-> node[1], nodes |-> nodes, edges |-> edges])
    /\ isAiLoading' = TRUE
    /\ UNCHANGED <<nodes, edges, transform, past, future, selVars, gestureVars, nextId>>
    /\ Did("aiExpand", CHOOSE id \in selectedNodeIds : TRUE, {})
    /\ Broken

\* The node and the edge handleAiExpand builds for suggestion index of count;
\* generateId() is called for the node, then for its edge.
AiNode(node, index, count, firstId) ==
    LET h == 2 * index - (count - 1)
    IN  MkNode(firstId + 2 * index, "node", "idea", "body",
               node.x + FanCos(h) + AiShiftX, node.y + FanSin(h),
               AiNodeSize, AiNodeSize,
               IF node.color = "gray" THEN "blue" ELSE node.color,
               node.id)

AiEdge(node, index, firstId) ==
    MkEdge(firstId + 2 * index + 1, node.id, firstId + 2 * index, "right", "left", "solid")

\* A continuation whose success path returns without clearing the busy
\* flag.
AiResolveKeepsBusy(count) ==
    /\ aiCall # <<>>
    /\ CanCheckpoint(1)
    /\ nextId + 2 * count - 1 <= MaxId
    /\ LET call == aiCall[1]
       IN  /\ past' = Append(past, HistoryState(call.nodes, call.edges))
           /\ future' = <<>>
           /\ nodes' = nodes \o [i \in 1..count |-> AiNode(call.node, i - 1, count, nextId)]
           /\ edges' = edges \o [i \in 1..count |-> AiEdge(call.node, i - 1, nextId)]
    /\ nextId' = nextId + 2 * count
    /\ aiCall' = Tail(aiCall)
    /\ UNCHANGED <<transform, selVars, gestureVars, isAiLoading>>
    /\ Did("aiResolve", aiCall[1].node.id, {})
    /\ Broken

\* App.tsx handleAiExpand after the await, expandIdea having answered with
\* count suggestions: saveHistory() of the closure, then the batch.
AiResolve(count) ==
    /\ aiCall # <<>>
    /\ CanCheckpoint(1)
    /\ nextId + 2 * count - 1 <= MaxId
    /\ LET call == aiCall[1]
       IN  /\ past' = Append(past, HistoryState(call.nodes, call.edges))
           /\ future' = <<>>
           /\ nodes' = nodes \o [i \in 1..count |-> AiNode(call.node, i - 1, count, nextId)]
           /\ edges' = edges \o [i \in 1..count |-> AiEdge(call.node, i - 1, nextId)]
    /\ nextId' = nextId + 2 * count
    /\ isAiLoading' = FALSE
    /\ aiCall' = Tail(aiCall)
    /\ UNCHANGED <<transform, selVars, gestureVars>>
    /\ Did("aiResolve", aiCall[1].node.id, {})
    /\ Broken

\* A failure path that takes the checkpoint before it reports the error.
AiRejectCheckpointed ==
    /\ aiCall # <<>>
    /\ CanCheckpoint(1)
    /\ past' = Append(past, HistoryState(aiCall[1].nodes, aiCall[1].edges))
    /\ future' = <<>>
    /\ isAiLoading' = FALSE
    /\ aiCall' = Tail(aiCall)
    /\ UNCHANGED <<nodes, edges, transform, selVars, gestureVars, nextId>>
    /\ Did("aiReject", aiCall[1].node.id, {"message"})
    /\ Broken

\* App.tsx handleAiExpand, expandIdea having thrown: catch (one message)
\* and finally
AiReject ==
    /\ aiCall # <<>>
    /\ isAiLoading' = FALSE
    /\ aiCall' = Tail(aiCall)
    /\ UNCHANGED <<nodes, edges, transform, past, future, selVars, gestureVars, nextId>>
    /\ Did("aiReject", aiCall[1].node.id, {"message"})
    /\ Broken

\* ------------------------------------------------------------------- start

\* App.tsx DEFAULT_INITIAL_NODES (id 'root' is id 1)
DefaultDocument ==
    [nodes |-> <<MkNode(1, "node", "Mindo", "centre", 0, 0, 150, 100, "yellow", 0)>>,
     edges |-> <<>>, nextId |-> 2]

\* A stored document: three nodes, the first joined to the other two.
ThreeNodeDocument ==
    [nodes |-> <<MkNode(1, "node", "a", "", 0, 0, 100, 80, "blue", 0),
                 MkNode(2, "node", "b", "", 300, 0, 100, 80, "gray", 0),
                 MkNode(3, "node", "c", "", 0, 300, 100, 80, "blue", 0)>>,
     edges |-> <<MkEdge(4, 1, 2, "right", "left", "solid"),
                 MkEdge(5, 1, 3, "bottom", "top", "solid")>>,
     nextId |-> 6]

\* A stored document: two nodes joined by one edge.
TwoNodeDocument ==
    [nodes |-> <<MkNode(1, "node", "a", "", 0, 0, 100, 80, "blue", 0),
                 MkNode(2, "node", "b", "", 300, 0, 100, 80, "blue", 0)>>,
     edges |-> <<MkEdge(3, 1, 2, "right", "left", "solid")>>,
     nextId |-> 4]

\* A stored document: a group around its one child, and a loose node.
GroupDocument ==
    [nodes |-> <<MkNode(1, "node", "a", "", 0, 0, 100, 80, "blue", 3),
                 MkNode(2, "node", "b", "", 300, 0, 100, 80, "blue", 0),
                 MkNode(3, "group", "g", "", -30, -70, 160, 180, "gray", 0)>>,
     edges |-> <<>>,
     nextId |-> 4]

\* A stored document: TwoNodeDocument saved right after its two nodes were
\* put into a group by handleCreateGroup (group id 4).
CreatedGroupDocument ==
    LET layout == LayoutOf(TwoNodeDocument.nodes)
        placed == MapSeq(TwoNodeDocument.nodes, LAMBDA n :
                      LET pos == FindFirst(layout, LAMBDA l : l.id = n.id)
                      IN  [n EXCEPT !.x = pos[1].x, !.y = pos[1].y])
    IN  [nodes |-> Append(AssignGroup(placed, {1, 2}, 4), GroupNodeFor(4, layout)),
         edges |-> TwoNodeDocument.edges,
         nextId |-> 5]

\* The state after construction from initialData (or the default document).
InitWith(doc, budget) ==
    /\ nodes = doc.nodes
    /\ edges = doc.edges
    /\ nextId = doc.nextId
    /\ transform = [x |-> 0, y |-> 0, scale |-> ScaleUnit]
    /\ past = <<>>
    /\ future = <<>>
    /\ selectedNodeIds = {}
    /\ selectedEdgeId = 0
    /\ draggingNodeId = 0
    /\ selectionBox = <<>>
    /\ connectionStart = <<>>
    /\ snapPreview = <<>>
    /\ reconnectingEdge = <<>>
    /\ isPanning = FALSE
    /\ isAiLoading = FALSE
    /\ dragStart = Pos(0, 0)
    /\ itemStart = Pos(0, 0)
    /\ initialNodes = <<>>
    /\ raf = <<>>
    /\ aiCall = <<>>
    /\ stepsLeft = budget
    /\ lastOp = [op |-> "init", id |-> 0, note |-> {}]
    /\ chain = NoChain

\* view.tsx renderApp, lines 78-85: the initialData of a persisted text.
\* A text is [ok |-> FALSE] when it is empty or JSON.parse throws, and
\* [ok |-> TRUE, json |-> r] when it parses to the object r, a record of the
\* fields it holds. The result is empty (null) or the one object.
ParseViewData(data) == IF data.ok THEN <<data.json>> ELSE <<>>

\* initialData?.f || fallback
FieldOr(initialData, f, fallback) ==
    IF initialData # <<>> /\ f \in DOMAIN initialData[1] THEN initialData[1][f] ELSE fallback

\* An id no node or edge of the collections carries.
FreshId(ns, es) ==
    LET used == NodeIds(ns) \cup EdgeIds(es) \cup {0}
    IN  1 + CHOOSE m \in used : \A u \in used : u <= m

\* The state after construction from a persisted text: the three useState
\* initialisers of App.tsx (45-47), the initialData effect (136-162) and the
\* centring effect (164-175), which runs when there is no initialData.nodes.
InitFrom(data, budget) ==
    LET initialData == ParseViewData(data)
        centred     == initialData = <<>> \/ "nodes" \notin DOMAIN initialData[1]
    IN  /\ nodes = FieldOr(initialData, "nodes", DefaultDocument.nodes)
        /\ edges = FieldOr(initialData, "edges", <<>>)
        /\ nextId = FreshId(nodes, edges)
        /\ transform = IF centred
                       THEN [x |-> ClientWidth \div 2 - ResetOffsetX,
                             y |-> ClientHeight \div 2 - ResetOffsetY, scale |-> ScaleUnit]
                       ELSE FieldOr(initialData, "transform",
                                    [x |-> 0, y |-> 0, scale |-> ScaleUnit])
        /\ past = <<>>
        /\ future = <<>>
        /\ selectedNodeIds = {}
        /\ selectedEdgeId = 0
        /\ draggingNodeId = 0
        /\ selectionBox = <<>>
        /\ connectionStart = <<>>
        /\ snapPreview = <<>>
        /\ reconnectingEdge = <<>>
        /\ isPanning = FALSE
        /\ isAiLoading = FALSE
        /\ dragStart = Pos(0, 0)
        /\ itemStart = Pos(0, 0)
        /\ initialNodes = <<>>
        /\ raf = <<>>
        /\ aiCall = <<>>
        /\ stepsLeft = budget
        /\ lastOp = [op |-> "start", id |-> 0,
                     note |-> IF centred THEN {"malformed"} ELSE {"wellformed"}]
        /\ chain = NoChain

\* ---------------------------------------------------------- specifications

\* Where the pointer presses a node: its centre (rounded down).
PressPoint(id) ==
    LET n == FindFirst(nodes, LAMBDA m : m.id = id)[1]
    IN  Pos(n.x + (n.width \div 2), n.y + (n.height \div 2))

AllIds == 1..(MaxId + 1)

\* Pointer positions of the editing runs: beside the left handle of the node
\* a double click at (600, 600) creates, and beside the left handle of node 2.
EditPoints == {Pos(540, 600), Pos(290, 40)}

\* The editing actions with their checkpoints, the connect gesture, and
\* undo / redo, on TwoNodeDocument.
NextHistory ==
    \/ \E id \in AllIds, shiftKey \in BOOLEAN : handleNodeMouseDown(id, PressPoint(id), shiftKey)
    \/ handleMouseUp
    \/ \E id \in AllIds : handleEdgeSelect(id)
    \/ handleDoubleClickCanvas(Pos(600, 600))
    \/ \E id \in AllIds : updateNodeData(id, "edited", "text")
    \/ \E id \in AllIds : updateNodeColor(id, "gray")
    \/ \E id \in AllIds : deleteNode(id)
    \/ \E id \in AllIds : handleConnectStart(id, "right")
    \/ \E id \in AllIds : createConnection(id, "left")
    \/ \E p \in EditPoints : handleGlobalMouseMove(p)
    \/ Frame
    \/ handleCreateGroup
    \/ \E d \in {"horizontal", "vertical"} : handleAlign(d)
    \/ EdgeMenuUpdate("dashed")
    \/ undo
    \/ redo

SpecHistory == InitWith(TwoNodeDocument, HistorySteps) /\ [][NextHistory]_vars

\* Pointer positions of the edge runs, on ThreeNodeDocument: beside the
\* left handle of node 2, beside the top handle of node 3, and on empty
\* canvas.
SnapPoints == {Pos(290, 40), Pos(50, 290), Pos(600, 600)}

\* Connect and reconnect gestures, deletion of nodes and edges, idea
\* expansion and undo / redo, on ThreeNodeDocument.
NextEdges ==
    \/ \E id \in AllIds : handleNodeMouseDown(id, PressPoint(id), FALSE)
    \/ handleMouseUp
    \/ \E id \in AllIds : handleEdgeSelect(id)
    \/ \E id \in AllIds : handleConnectStart(id, "right")
    \/ \E id \in AllIds : createConnection(id, "left")
    \/ \E id \in AllIds, which \in {"from", "to"} : handleEdgeReconnectStart(id, which)
    \/ \E p \in SnapPoints : handleGlobalMouseMove(p)
    \/ Frame
    \/ \E id \in AllIds : deleteNode(id)
    \/ deleteSelected
    \/ EdgeMenuDelete
    \/ handleAiExpand
    \/ \E count \in 0..MaxSuggestions : AiResolve(count)
    \/ AiReject
    \/ undo
    \/ redo

SpecEdges == InitWith(ThreeNodeDocument, EdgeSteps) /\ [][NextEdges]_vars

\* Where the selection runs press the canvas and where they move to: the
\* rectangle then holds node 1, or nodes 1 and 2.
BoxStart == Pos(-20, -20)

BoxEnds == {Pos(200, 200), Pos(450, 150)}

\* Selection: canvas presses, node presses, edge selection, the selection
\* rectangle, node and group creation.
NextSelect ==
    \/ \E pan \in BOOLEAN, shiftKey \in BOOLEAN : handleMouseDownCanvas(BoxStart, pan, shiftKey)
    \/ \E id \in AllIds, shiftKey \in BOOLEAN : handleNodeMouseDown(id, PressPoint(id), shiftKey)
    \/ \E id \in AllIds : handleEdgeSelect(id)
    \/ \E p \in BoxEnds : handleGlobalMouseMove(p)
    \/ Frame
    \/ handleMouseUp
    \/ handleDoubleClickCanvas(Pos(600, 600))
    \/ handleCreateGroup

SpecSelect ==
    /\ InitWith(DefaultDocument, SelectSteps) \/ InitWith(TwoNodeDocument, SelectSteps)
    /\ [][NextSelect]_vars

\* Where the group runs move the pointer to, on GroupDocument: straight
\* down from the centre of node 1, and a little to its right.
DragPoints == {Pos(50, 90), Pos(60, 40)}

\* Groups: drags, align, resizes, group creation and undo / redo.
NextGroups ==
    \/ \E id \in AllIds, shiftKey \in BOOLEAN : handleNodeMouseDown(id, PressPoint(id), shiftKey)
    \/ \E p \in DragPoints : handleGlobalMouseMove(p)
    \/ Frame
    \/ handleMouseUp
    \/ handleCreateGroup
    \/ \E d \in {"horizontal", "vertical"} : handleAlign(d)
    \/ \E id \in AllIds : ResizeObserved(id, 200, 80)
    \/ \E id \in AllIds : handleResizeMouseMove(id, -100, 0)
    \/ undo
    \/ redo

SpecGroups == InitWith(GroupDocument, GroupSteps) /\ [][NextGroups]_vars

\* Composition of the document: selection by presses, small drags, group
\* creation, deletion from the node toolbar and undo / redo, on
\* ThreeNodeDocument or GroupDocument.
NextCompose ==
    \/ \E id \in AllIds, shiftKey \in BOOLEAN : handleNodeMouseDown(id, PressPoint(id), shiftKey)
    \/ \E p \in DragPoints : handleGlobalMouseMove(p)
    \/ Frame
    \/ handleMouseUp
    \/ handleCreateGroup
    \/ \E id \in AllIds : deleteNode(id)
    \/ undo
    \/ redo

SpecCompose ==
    /\ InitWith(ThreeNodeDocument, ComposeSteps) \/ InitWith(GroupDocument, ComposeSteps)
    /\ [][NextCompose]_vars

\* Gestures: every pointer-down (canvas, node, handle, edge end marker),
\* pointer moves with their frames, and both kinds of release, on
\* ThreeNodeDocument.
NextGestures ==
    \/ \E pan \in BOOLEAN, shiftKey \in BOOLEAN : handleMouseDownCanvas(BoxStart, pan, shiftKey)
    \/ \E id \in AllIds : handleNodeMouseDown(id, PressPoint(id), FALSE)
    \/ \E id \in AllIds : handleConnectStart(id, "right")
    \/ \E id \in AllIds : handleEdgeSelect(id)
    \/ \E id \in AllIds, which \in {"from", "to"} : handleEdgeReconnectStart(id, which)
    \/ \E id \in AllIds : createConnection(id, "left")
    \/ \E p \in SnapPoints : handleGlobalMouseMove(p)
    \/ Frame
    \/ handleMouseUp

SpecGestures == InitWith(ThreeNodeDocument, GestureSteps) /\ [][NextGestures]_vars

\* Idea expansion: invocations with and without an API key, completions
\* and failures, between selections, edits of a title, creation, deletion
\* and undo / redo, on ThreeNodeDocument.
NextAi ==
    \/ \E id \in AllIds, shiftKey \in BOOLEAN : handleNodeMouseDown(id, PressPoint(id), shiftKey)
    \/ handleMouseUp
    \/ handleDoubleClickCanvas(Pos(600, 600))
    \/ \E id \in AllIds : updateNodeData(id, "", "")
    \/ \E id \in AllIds : deleteNode(id)
    \/ undo
    \/ redo
    \/ handleAiExpand
    \/ \E hasKey \in BOOLEAN : handleAiExpandReturns(hasKey)
    \/ \E count \in 0..MaxSuggestions : AiResolve(count)
    \/ AiReject

SpecAi == InitWith(ThreeNodeDocument, AiSteps) /\ [][NextAi]_vars

\* The backend call of a pending request returns: expandIdea resolves with
\* some suggestions or rejects.
AiReturn ==
    \/ \E count \in 0..MaxSuggestions : AiResolve(count)
    \/ AiReject

\* Idea expansion among presses, edits and undo, each run keeping a step for
\* the return of every pending request; the backend call of a pending
\* request does return.
NextAiLive ==
    \/ \E id \in AllIds : stepsLeft > Len(aiCall) /\ handleNodeMouseDown(id, PressPoint(id), FALSE)
    \/ stepsLeft > Len(aiCall) /\ handleMouseUp
    \/ \E id \in AllIds : stepsLeft > Len(aiCall) /\ updateNodeData(id, "", "")
    \/ stepsLeft > Len(aiCall) /\ undo
    \/ \E hasKey \in BOOLEAN : stepsLeft > Len(aiCall) /\ handleAiExpandReturns(hasKey)
    \/ stepsLeft > Len(aiCall) + 1 /\ handleAiExpand
    \/ AiReturn

SpecAiLive ==
    /\ InitWith(ThreeNodeDocument, AiLiveSteps)
    /\ [][NextAiLive]_vars
    /\ WF_vars(AiReturn)

\* The keys pressed in a node editor, and the texts its inputs may hold:
\* the stored ones of TwoNodeDocument or typed ones.
EditKeys == {"Escape", "CtrlEnter", "a"}

EditTitles == {"a", "typed"}

EditContents == {"", "typed"}

\* In-place text editing: keys in the editor, the commit on blur, and
\* undo / redo, on TwoNodeDocument.
NextEdit ==
    \/ \E id \in AllIds, key \in EditKeys, title \in EditTitles, content \in EditContents :
           handleKeyDown(id, key, title, content)
    \/ \E id \in AllIds, title \in EditTitles, content \in EditContents :
           updateNodeData(id, title, content)
    \/ undo
    \/ redo

SpecEdit == InitWith(TwoNodeDocument, EditSteps) /\ [][NextEdit]_vars

\* Wheel inputs: a small and a large turn each way.
WheelDeltas == {-100, 100, -6000, 6000}

WheelPoint == Pos(400, 300)

\* The transform of a stored document: none, or one whose scale is any
\* number the file holds.
StoredTransforms ==
    {<<>>} \cup {<<[x |-> 0, y |-> 0, scale |-> sc]>> : sc \in {5, 100, 460, 1000}}

\* The viewport: wheel, toolbar zoom, fit-view, reset, pan and document
\* loads, on TwoNodeDocument.
NextZoom ==
    \/ \E ctrlKey \in BOOLEAN, d \in WheelDeltas : handleWheel(ctrlKey, WheelPoint, d, d)
    \/ onZoomIn
    \/ onZoomOut
    \/ onFitView
    \/ onReset
    \/ \E doc \in {DefaultDocument, TwoNodeDocument}, stored \in StoredTransforms :
           SyncInitialData(doc, stored)
    \/ handleMouseDownCanvas(BoxStart, TRUE, FALSE)
    \/ \E p \in DragPoints : handleGlobalMouseMove(p)
    \/ Frame
    \/ handleMouseUp

SpecZoom == InitWith(TwoNodeDocument, ZoomSteps) /\ [][NextZoom]_vars

\* Node lists for getNearestHandle: none, three apart, two on the same box
\* (equal distances), two entries under one id beside a third node, and a
\* node of odd size beside a group.
GeometryLists ==
    { <<>>,
      ThreeNodeDocument.nodes,
      <<MkNode(1, "node", "a", "", 0, 0, 100, 80, "blue", 0),
        MkNode(2, "node", "b", "", 0, 0, 100, 80, "blue", 0)>>,
      <<MkNode(1, "node", "a", "", 0, 0, 100, 80, "blue", 0),
        MkNode(1, "node", "a", "", 300, 0, 100, 80, "blue", 0),
        MkNode(2, "node", "b", "", 0, 300, 100, 80, "blue", 0)>>,
      <<MkNode(1, "node", "a", "", 0, 0, 101, 51, "blue", 3),
        MkNode(3, "group", "g", "", -30, -70, 161, 151, "gray", 0)>> }

GeometryPoints == {Pos(px, py) : px \in {0, 50, 100, 290, 350}, py \in {-70, 0, 40, 300}}

GeometryThresholds == {0, 30, 50, 1000}

\* getNearestHandle as a function: every point, excluded id (0 is the id of
\* no node) and threshold of the sets above, on every list of GeometryLists.
NextGeometry ==
    \E point \in GeometryPoints, excludeNodeId \in 0..3, threshold \in GeometryThresholds :
        NearestHandleCall(point, excludeNodeId, threshold)

SpecGeometry ==
    /\ \E ns \in GeometryLists :
           InitWith([nodes |-> ns, edges |-> <<>>, nextId |-> 4], GeometrySteps)
    /\ [][NextGeometry]_vars

\* A stored document: node A (id 1) at (0,0), 100 by 50, node B (id 2) at
\* (200,0), 100 by 50, and an edge from A's right handle to B's left handle
\* that has no routing type yet.
ScenarioDocument ==
    [nodes |-> <<MkNode(1, "node", "A", "", 0, 0, 100, 50, "blue", 0),
                 MkNode(2, "node", "B", "", 200, 0, 100, 50, "blue", 0)>>,
     edges |-> <<MkEdge(3, 1, 2, "right", "left", "solid")>>,
     nextId |-> 4]

EdgeTypes == {"bezier", "straight", "step"}

LinePoints == {Pos(150, 25), Pos(150, 60)}

\* Edge shapes: routing types from the menu, breakpoints added and removed
\* on the line, and node drags, on ScenarioDocument.
NextPaths ==
    \/ \E id \in AllIds : handleEdgeSelect(id)
    \/ \E type \in EdgeTypes : EdgeMenuSetType(type)
    \/ \E id \in AllIds, p \in LinePoints : handleDoubleClickLine(id, p)
    \/ \E id \in AllIds, index \in 0..1 : handleDoubleClickBreakpoint(id, index)
    \/ \E id \in AllIds, index \in 0..1 : handleMouseDownBreakpoint(id, index)
    \/ \E id \in AllIds, index \in 0..1, to \in LinePoints :
           handleBreakpointMouseMove(id, index, to)
    \/ \E id \in AllIds : handleNodeMouseDown(id, PressPoint(id), FALSE)
    \/ \E p \in DragPoints : handleGlobalMouseMove(p)
    \/ Frame
    \/ handleMouseUp
    \/ undo

SpecPaths == InitWith(ScenarioDocument, PathSteps) /\ [][NextPaths]_vars

\* Stored documents with one step edge: node A (id 1) at (0,0), 100 by 50,
\* node B (id 2) of odd size at one of nine places around and on A, and an
\* edge from any handle of A to any handle of B.
StepDocuments ==
    {[nodes |-> <<MkNode(1, "node", "A", "", 0, 0, 100, 50, "blue", 0),
                  MkNode(2, "node", "B", "", bx, by, 101, 51, "blue", 0)>>,
      edges |-> <<Spread(MkEdge(3, 1, 2, Handles[f], Handles[t], "solid"),
                         [type |-> "step"])>>,
      nextId |-> 4] :
        bx \in {-200, 0, 100}, by \in {-100, 0, 60},
        f \in 1..Len(Handles), t \in 1..Len(Handles)}

\* Step edges while their nodes are dragged and their routing type is set
\* from the menu.
NextStep ==
    \/ \E id \in AllIds : handleNodeMouseDown(id, PressPoint(id), FALSE)
    \/ \E p \in DragPoints : handleGlobalMouseMove(p)
    \/ Frame
    \/ handleMouseUp
    \/ \E id \in AllIds : handleEdgeSelect(id)
    \/ \E type \in EdgeTypes : EdgeMenuSetType(type)

SpecStep == (\E doc \in StepDocuments : InitWith(doc, StepSteps)) /\ [][NextStep]_vars

\* A stored document: five nodes of different sizes, two of them
\* overlapping, two in the same row, and no edges.
FiveNodeDocument ==
    [nodes |-> <<MkNode(1, "node", "a", "", 0, 0, 100, 80, "blue", 0),
                 MkNode(2, "node", "b", "", 300, 0, 150, 120, "blue", 0),
                 MkNode(3, "node", "c", "", 0, 300, 100, 40, "blue", 0),
                 MkNode(4, "node", "d", "", 50, 50, 60, 60, "blue", 0),
                 MkNode(5, "node", "e", "", -40, 200, 200, 100, "blue", 0)>>,
     edges |-> <<>>,
     nextId |-> 6]

\* Group creation on selections built by presses with and without shift,
\* with undo.
NextLayout ==
    \/ \E id \in AllIds, shiftKey \in BOOLEAN : handleNodeMouseDown(id, PressPoint(id), shiftKey)
    \/ handleMouseUp
    \/ handleCreateGroup
    \/ undo

SpecLayout == InitWith(FiveNodeDocument, LayoutSteps) /\ [][NextLayout]_vars

\* A document stored by an earlier version: the edge of ScenarioDocument
\* with the single controlPoint of types.ts MindMapEdge and no breakpoints.
LegacyDocument ==
    [nodes |-> ScenarioDocument.nodes,
     edges |-> <<Spread(MkEdge(3, 1, 2, "right", "left", "solid"),
                        [controlPoint |-> <<Pos(150, 60)>>])>>,
     nextId |-> 4]

SpecLegacy == InitWith(LegacyDocument, LegacySteps) /\ [][NextPaths]_vars

\* Persisted texts: one that does not parse, and objects with no field,
\* with edges but no nodes, with a transform but no nodes, and with nodes
\* (with and without edges and transform).
PersistedTexts ==
    { [ok |-> FALSE],
      [ok |-> TRUE, json |-> [version |-> 1]],
      [ok |-> TRUE, json |-> [edges |-> TwoNodeDocument.edges, version |-> 1]],
      [ok |-> TRUE, json |-> [transform |-> [x |-> 10, y |-> 10, scale |-> 200], version |-> 1]],
      [ok |-> TRUE, json |-> [nodes |-> TwoNodeDocument.nodes, version |-> 1]],
      [ok |-> TRUE, json |-> [nodes |-> TwoNodeDocument.nodes, edges |-> TwoNodeDocument.edges,
                              transform |-> [x |-> 10, y |-> 10, scale |-> 200],
                              version |-> 1]] }

\* Startup from every persisted text, then creation, text commits, undo and
\* redo, and reloads of stored documents.
NextStart ==
    \/ \E p \in EditPoints : handleDoubleClickCanvas(p)
    \/ \E id \in AllIds, title \in EditTitles : updateNodeData(id, title, "")
    \/ \E doc \in {DefaultDocument, TwoNodeDocument} : SyncInitialData(doc, <<>>)
    \/ undo
    \/ redo

SpecStart == (\E data \in PersistedTexts : InitFrom(data, StartSteps)) /\ [][NextStart]_vars

DragDocuments == {ThreeNodeDocument, GroupDocument, CreatedGroupDocument}

\* Where the pointer goes during a drag: the points of DragPoints and the
\* centre of the second node of the documents.
DragTargets == DragPoints \cup {Pos(350, 40)}

\* Node drags: presses with and without shift, moves, frames and releases,
\* with undo and redo, on each of DragDocuments.
NextDrag ==
    \/ \E id \in AllIds, shiftKey \in BOOLEAN : handleNodeMouseDown(id, PressPoint(id), shiftKey)
    \/ \E p \in DragTargets : handleGlobalMouseMove(p)
    \/ Frame
    \/ handleMouseUp
    \/ undo
    \/ redo

SpecDrag == (\E doc \in DragDocuments : InitWith(doc, DragSteps)) /\ [][NextDrag]_vars

\* Resizes: the press on the resize handle of a group and moves away from
\* it, reported sizes of nodes, selection presses, and undo / redo, on
\* GroupDocument.
NextResize ==
    \/ \E id \in AllIds : handleResizeMouseDown(id)
    \/ \E id \in AllIds, dx \in {-100, 40}, dy \in {0, 40} : handleResizeMouseMove(id, dx, dy)
    \/ \E id \in AllIds : ResizeObserved(id, 200, 80)
    \/ \E id \in AllIds : updateNodeData(id, "typed", "")
    \/ \E id \in AllIds : handleNodeMouseDown(id, PressPoint(id), FALSE)
    \/ handleMouseUp
    \/ undo
    \/ redo

SpecResize == InitWith(GroupDocument, ResizeSteps) /\ [][NextResize]_vars

\* ------------------------------------------------------------ properties

\* C1: after a discrete checkpointing action (double-click creation, text
\* commit, recolour, node deletion, new connection, group creation, align,
\* edge property edit), an immediate undo leaves the node and edge
\* collections exactly as they were before the action, and an immediate redo
\* after that undo leaves them exactly as they were after it.
UndoRedoRestores ==
    /\ chain.k = "undone" => (nodes = chain.pre.nodes /\ edges = chain.pre.edges)
    /\ chain.k = "redone" => (nodes = chain.post.nodes /\ edges = chain.post.edges)

\* An action that changed the edges was undone and redone.
UndoRedoWitness ==
    /\ chain.k = "redone"
    /\ lastOp.op = "redo"
    /\ chain.pre.edges # chain.post.edges
    /\ edges # <<>>

\* C2: every edge's from and to are ids of nodes of the node collection.
EdgesReferToNodes ==
    \A i \in SeqIndices(edges) :
        edges[i].from \in NodeIds(nodes) /\ edges[i].to \in NodeIds(nodes)

\* C3: no two distinct edges join the same unordered pair of nodes.
NoParallelEdges ==
    \A i, j \in SeqIndices(edges) :
        i # j => {edges[i].from, edges[i].to} # {edges[j].from, edges[j].to}

\* C4: the release of a connect gesture from A on a snap target of B (by the
\* window release or on a handle of B), an edge between A and B existing,
\* leaves the edge collection unchanged.
DuplicateConnectKeepsEdges ==
    [][(/\ connectionStart # <<>>
        /\ \/ /\ lastOp'.op = "mouseUp"
              /\ snapPreview # <<>>
              /\ Joined(edges, connectionStart[1].nodeId, snapPreview[1].nodeId)
           \/ /\ lastOp'.op = "createConnection"
              /\ Joined(edges, connectionStart[1].nodeId, lastOp'.id))
       => edges' = edges]_vars

\* C5: every edge has two different ends.
NoSelfLoops == \A i \in SeqIndices(edges) : edges[i].from # edges[i].to

\* C6: deleteNode(X) leaves exactly the nodes other than X and exactly the
\* edges with neither end at X, each unchanged and in its place.
DeleteNodeExact ==
    lastOp.op = "deleteNode" =>
        /\ nodes = SelectSeq(chain.pre.nodes, LAMBDA n : n.id # lastOp.id)
        /\ edges = SelectSeq(chain.pre.edges,
                             LAMBDA e : e.from # lastOp.id /\ e.to # lastOp.id)

\* A node with an incoming edge was deleted; its source and another edge stay.
DeleteNodeWitness ==
    /\ lastOp.op = "deleteNode"
    /\ \E i \in SeqIndices(chain.pre.edges) :
           /\ chain.pre.edges[i].to = lastOp.id
           /\ chain.pre.edges[i].from \in NodeIds(nodes)
    /\ Len(edges) = Len(chain.pre.edges) - 1
    /\ edges # <<>>

\* C7: the set of selected nodes is never non-empty while an edge is
\* selected.
SelectionExclusive == ~(selectedNodeIds # {} /\ selectedEdgeId # 0)

\* The box of group g reaches, within tol, over the padded union of boxes.
CoversChildren(g, children, tol) ==
    LET box == PaddedBox(children, RecalcPadding)
    IN  /\ g.x <= box.x + tol
        /\ g.y <= box.y + tol
        /\ g.x + g.width >= box.x + box.width - tol
        /\ g.y + g.height >= box.y + box.height - tol

GroupsCover(tol) ==
    \A i \in SeqIndices(nodes) :
        (IsGroup(nodes[i]) /\ ChildrenOf(nodes, nodes[i].id) # <<>>)
            => CoversChildren(nodes[i], ChildrenOf(nodes, nodes[i].id), tol)

\* C8: after the release of a node drag, every group that has a child has a
\* box that contains the union of its children's boxes, padded by 30 (and by
\* the title offset of 40 on top), within 1 unit.
DragReleaseCovers ==
    (lastOp.op = "mouseUp" /\ "drag" \in lastOp.note) => GroupsCover(1)

\* C9: in every state the box of every group that has a child is at least
\* the padded bounding box of its children.
GroupsAlwaysCover == GroupsCover(0)

\* C10: no group node has a parentId.
NoGroupHasParent == \A i \in SeqIndices(nodes) : IsGroup(nodes[i]) => nodes[i].parentId = 0

\* C11: deleteNode(G) of a group G keeps every node that had parentId = G,
\* and each of them has no parentId afterwards.
GroupDeleteFreesChildren ==
    (/\ lastOp.op = "deleteNode"
     /\ \E i \in SeqIndices(chain.pre.nodes) :
            chain.pre.nodes[i].id = lastOp.id /\ IsGroup(chain.pre.nodes[i]))
    => \A i \in SeqIndices(chain.pre.nodes) :
           chain.pre.nodes[i].parentId = lastOp.id
           => \E j \in SeqIndices(nodes) :
                  nodes[j].id = chain.pre.nodes[i].id /\ nodes[j].parentId = 0

\* The union of the boxes of the nodes of ns with an id in ids, widened by
\* pad on every side and by top more on the top edge.
PaddedUnion(ns, ids, pad, top) ==
    LET idx  == {i \in SeqIndices(ns) : ns[i].id \in ids}
        minX == MinOver({ns[i].x : i \in idx})
        minY == MinOver({ns[i].y : i \in idx})
        maxX == MaxOver({ns[i].x + ns[i].width : i \in idx})
        maxY == MaxOver({ns[i].y + ns[i].height : i \in idx})
    IN  [x |-> minX - pad, y |-> minY - pad - top,
         width |-> (maxX - minX) + 2 * pad, height |-> (maxY - minY) + 2 * pad + top]

BoxOf(n) == [x |-> n.x, y |-> n.y, width |-> n.width, height |-> n.height]

\* handleCreateGroup runs on a selection of three nodes of the document, at
\* three different positions.
GroupsThree ==
    /\ lastOp'.op = "createGroup"
    /\ Cardinality(selectedNodeIds) = 3
    /\ selectedNodeIds \subseteq NodeIds(nodes)
    /\ \A i, j \in SeqIndices(nodes) :
           (i # j /\ nodes[i].id \in selectedNodeIds /\ nodes[j].id \in selectedNodeIds)
               => <<nodes[i].x, nodes[i].y>> # <<nodes[j].x, nodes[j].y>>

\* After it: one more node, the new group, last in the list, and the three
\* selected nodes are its children; its box is the union of their boxes
\* widened by pad on every side and by top more on the top edge.
GroupedThree(pad, top) ==
    /\ Len(nodes') = Len(nodes) + 1
    /\ NodeIds(nodes') = NodeIds(nodes) \cup {lastOp'.id}
    /\ lastOp'.id \notin NodeIds(nodes)
    /\ \A i \in SeqIndices(nodes') : nodes'[i].id = lastOp'.id => IsGroup(nodes'[i])
    /\ \A i \in SeqIndices(nodes) : IsGroup(nodes'[i]) = IsGroup(nodes[i])
    /\ \A i \in SeqIndices(nodes') :
           nodes'[i].id \in selectedNodeIds => nodes'[i].parentId = lastOp'.id
    /\ BoxOf(nodes'[Len(nodes')]) = PaddedUnion(nodes', selectedNodeIds, pad, top)

\* C12 as stated: the box of the new group is the union of the three nodes'
\* post-layout boxes padded by 40 units.
CreateGroupPadded40 == [][GroupsThree => GroupedThree(CreatePadding, 0)]_vars

\* C12: createGroup on three selected nodes at distinct positions adds
\* exactly one node, of kind group, whose box is the union of the three
\* nodes' post-layout boxes padded by 40 on every side and by the title
\* offset of 40 more on the top edge; the three nodes have the new group's id
\* as parentId.
CreateGroupPaddedWithTitle == [][GroupsThree => GroupedThree(CreatePadding, TitleOffset)]_vars

\* Three nodes at distinct positions were grouped.
CreateGroupWitness ==
    /\ lastOp.op = "createGroup"
    /\ Cardinality({i \in SeqIndices(nodes) : nodes[i].parentId = lastOp.id}) = 3
    /\ \E i \in SeqIndices(nodes) :
           /\ nodes[i].id = lastOp.id
           /\ BoxOf(nodes[i]) # PaddedUnion(nodes, {nodes[j].id : j \in
                                   {k \in SeqIndices(nodes) : nodes[k].parentId = lastOp.id}},
                                   CreatePadding, 0)

\* The gesture states that are active.
ActiveGestures ==
    (IF isPanning THEN {"Panning"} ELSE {})
    \cup (IF selectionBox # <<>> THEN {"BoxSelecting"} ELSE {})
    \cup (IF draggingNodeId # 0 THEN {"DraggingNodes"} ELSE {})
    \cup (IF connectionStart # <<>> THEN {"Connecting"} ELSE {})
    \cup (IF reconnectingEdge # <<>> THEN {"Reconnecting"} ELSE {})

\* C13: at most one of the gesture states Panning, BoxSelecting,
\* DraggingNodes, Connecting, Reconnecting is active.
GestureExclusive == Cardinality(ActiveGestures) <= 1

\* C14: undo with an empty past, and redo with an empty future, leave
\* nodes, edges, past and future unchanged.
EmptyStackNoOp ==
    [][((lastOp'.op = "undo" /\ past = <<>>) \/ (lastOp'.op = "redo" /\ future = <<>>))
       => UNCHANGED <<nodes, edges, past, future>>]_vars

\* undo found the past empty while there was something to redo.
EmptyStackWitness ==
    /\ lastOp.op = "undo"
    /\ "empty" \in lastOp.note
    /\ past = <<>>
    /\ future # <<>>

\* C15: a failed idea expansion (expandIdea throws, or the API key is
\* missing) leaves nodes, edges, past and future as they were before the
\* failure was processed, and shows a message.
AiFailureCommitsNothing ==
    [][(\/ lastOp'.op = "aiReject"
        \/ (lastOp'.op = "aiExpand" /\ "nokey" \in lastOp'.note))
       => (UNCHANGED <<nodes, edges, past, future>> /\ "message" \in lastOp'.note)]_vars

\* A request failed after the document was edited while it was pending.
AiFailureWitness ==
    /\ lastOp.op = "aiReject"
    /\ past # <<>>
    /\ ~isAiLoading

\* C16: at most one idea-expansion request is pending, and a call of
\* handleAiExpand while the busy flag is set starts none and changes nothing.
AiSingleRequest ==
    [][/\ Len(aiCall') <= 1
       /\ (lastOp'.op = "aiExpand" /\ isAiLoading)
              => UNCHANGED <<nodes, edges, transform, past, future, selVars, gestureVars,
                             aiVars, nextId>>]_vars

\* handleAiExpand was called with one titled node selected while a request
\* was pending.
AiBusyWitness ==
    /\ lastOp.op = "aiExpand"
    /\ lastOp.note = {"busy"}
    /\ isAiLoading
    /\ Len(aiCall) = 1

\* C17: Escape in the editor of a node leaves the node's title and content
\* at their stored values, whatever was typed, and leaves past and future
\* unchanged.
EscapeDiscards ==
    [][(lastOp'.op = "keyDown" /\ "Escape" \in lastOp'.note)
       => UNCHANGED <<nodes, past, future>>]_vars

\* C18: the viewport scale lies between 0.1 and 5 in every reachable state.
ScaleInRange == transform.scale >= MinScale /\ transform.scale <= MaxScale

\* C19: getNearestHandle never returns a handle of the excluded node.
NearestSkipsExcluded ==
    (lastOp.op = "getNearestHandle" /\ snapPreview # <<>>)
        => snapPreview[1].nodeId # lastOp.id

\* A call excluded a node of the list whose handle is the nearest one to the
\* point, and returned a handle of another node.
NearestSkipsWitness ==
    /\ lastOp.op = "getNearestHandle"
    /\ snapPreview # <<>>
    /\ \E point \in GeometryPoints, threshold \in GeometryThresholds :
           /\ snapPreview = getNearestHandle(point, nodes, lastOp.id, threshold)
           /\ getNearestHandle(point, nodes, 0, threshold) # <<>>
           /\ getNearestHandle(point, nodes, 0, threshold)[1].nodeId = lastOp.id

\* The edges of the scenario: from the right handle of a node at (0,0) of 100
\* by 50 to the left handle of a node at (200,0) of 100 by 50, straight,
\* without breakpoints.
ScenarioEdges ==
    {i \in SeqIndices(edges) :
        /\ EdgeShown(edges[i])
        /\ LET a == FindFirst(nodes, LAMBDA n : n.id = edges[i].from)[1]
               b == FindFirst(nodes, LAMBDA n : n.id = edges[i].to)[1]
           IN  /\ a.x = 0 /\ a.y = 0 /\ a.width = 100 /\ a.height = 50
               /\ b.x = 200 /\ b.y = 0 /\ b.width = 100 /\ b.height = 50
        /\ edges[i].fromHandle = "right"
        /\ edges[i].toHandle = "left"
        /\ TypeOf(edges[i]) = "straight"
        /\ BreakpointsOf(edges[i]) = <<>>}

\* The path of one segment from point a to point b.
Segment(a, b) == <<PathCmd("M", <<InPathUnits(a)>>), PathCmd("L", <<InPathUnits(b)>>)>>

\* C20, as stated: the path of the scenario's edge is the single segment
\* from (50,25) to (200,25).
ScenarioPathFromCentre ==
    \A i \in ScenarioEdges : PathOf(edges[i], nodes) = Segment(Pos(50, 25), Pos(200, 25))

\* C20, amended: the path of the scenario's edge is the single segment from
\* A's right handle (100,25) to B's left handle (200,25).
ScenarioPathFromHandle ==
    \A i \in ScenarioEdges : PathOf(edges[i], nodes) = Segment(Pos(100, 25), Pos(200, 25))

\* The edge of the scenario has just been made straight from its menu.
ScenarioPathWitness ==
    /\ lastOp.op = "edgeMenuSetType"
    /\ ScenarioEdges # {}

\* C21: a session started from a malformed persisted text (one that does
\* not parse, or that holds no nodes list) starts with the default
\* document: exactly its one node, and no edges.
MalformedStartsDefault ==
    (lastOp.op = "start" /\ "malformed" \in lastOp.note)
        => (nodes = DefaultDocument.nodes /\ Len(nodes) = 1 /\ edges = <<>>)

\* C22: the release of a node drag pushes exactly one checkpoint, the node
\* collection of press time with the edges, and clears future, when the node
\* collection it leaves differs from the one at press time; it leaves past
\* and future alone when the two are equal.
DragCheckpointsChanges ==
    [][(lastOp'.op = "mouseUp" /\ "drag" \in lastOp'.note)
       => IF nodes' # initialNodes
          THEN past' = Append(past, HistoryState(initialNodes, edges)) /\ future' = <<>>
          ELSE UNCHANGED <<past, future>>]_vars

\* C23: the checkpoint a successful idea expansion pushes is the node and
\* edge collections as they are right before the batch is appended, whatever
\* happened since the request started.
AiCheckpointIsCurrent ==
    [][lastOp'.op = "aiResolve" => past' = Append(past, HistoryState(nodes, edges))]_vars

\* C24: the press on the resize handle of a node pushes one checkpoint, the
\* collections of that moment, before any size changes.
ResizeStartCheckpoints ==
    [][lastOp'.op = "resizeMouseDown"
       => past' = Append(past, HistoryState(nodes, edges)) /\ future' = <<>>]_vars

\* C25: every edge-shape edit (a breakpoint inserted by double-click on the
\* line, the press that starts a breakpoint drag, a breakpoint deleted by
\* double-click on its marker) pushes one checkpoint, the collections from
\* before the edit.
EdgeShapeCheckpoints ==
    [][lastOp'.op \in {"doubleClickLine", "breakpointMouseDown", "doubleClickBreakpoint"}
       => past' = Append(past, HistoryState(nodes, edges)) /\ future' = <<>>]_vars

\* The ids of the groups of ns whose box holds the centre of node n.
HoldersOf(ns, n) ==
    {ns[i].id : i \in {j \in SeqIndices(ns) :
        /\ IsGroup(ns[j])
        /\ ns[j].id # n.id
        /\ Center2(n).x >= 2 * ns[j].x /\ Center2(n).x <= 2 * (ns[j].x + ns[j].width)
        /\ Center2(n).y >= 2 * ns[j].y /\ Center2(n).y <= 2 * (ns[j].y + ns[j].height)}}

\* Every node that is not a group has as parentId a group that holds its
\* centre when there is one, and none otherwise.
ParentsFollowCentres ==
    \A i \in SeqIndices(nodes) :
        ~IsGroup(nodes[i]) =>
            IF HoldersOf(nodes, nodes[i]) # {}
            THEN nodes[i].parentId \in HoldersOf(nodes, nodes[i])
            ELSE nodes[i].parentId = 0

\* C26: after the release of a node drag every node that is not a group has
\* as parentId a group whose box holds its centre, if there is one, and no
\* parentId otherwise.
DragReleaseReparents ==
    (lastOp.op = "mouseUp" /\ "drag" \in lastOp.note) => ParentsFollowCentres

\* The frame of a node drag leaves exactly the nodes with an id in moving at
\* their press-time position plus the world-space delta of the pointer, once,
\* and every other node as it was.
DragFrameMoves(moving) ==
    LET dx == ((raf[1].x - dragStart.x) * ScaleUnit) \div transform.scale
        dy == ((raf[1].y - dragStart.y) * ScaleUnit) \div transform.scale
    IN  /\ Len(nodes') = Len(nodes)
        /\ \A i \in SeqIndices(nodes) :
              LET start == FindFirst(initialNodes, LAMBDA sn : sn.id = nodes[i].id)
              IN  IF nodes[i].id \in moving /\ start # <<>>
                  THEN nodes'[i] = [nodes[i] EXCEPT !.x = start[1].x + dx,
                                                    !.y = start[1].y + dy]
                  ELSE nodes'[i] = nodes[i]

\* The nodes the drag is applied to: the selection when the pressed node is
\* in it, the pressed node alone otherwise.
DragSet == IF draggingNodeId \in selectedNodeIds THEN selectedNodeIds ELSE {draggingNodeId}

ChildIdsOf(parents) == {nodes[i].id : i \in {j \in SeqIndices(nodes) : nodes[j].parentId \in parents}}

\* C27, as stated: a drag frame moves the selection (or the pressed node
\* alone) and the children of the pressed node when it is a group, each to
\* its press-time position plus the delta, and nothing else.
DragMovesPressedGroupChildren ==
    [][(lastOp'.op = "frame" /\ "drag" \in lastOp'.note)
       => DragFrameMoves(DragSet \cup
              (IF \E i \in SeqIndices(nodes) : nodes[i].id = draggingNodeId /\ IsGroup(nodes[i])
               THEN ChildIdsOf({draggingNodeId}) ELSE {}))]_vars

\* C27, amended: a drag frame moves the selection (or the pressed node
\* alone) and the children of every moved node, each to its press-time
\* position plus the delta, and nothing else.
DragMovesChildrenOfMoved ==
    [][(lastOp'.op = "frame" /\ "drag" \in lastOp'.note)
       => DragFrameMoves(DragSet \cup ChildIdsOf(DragSet))]_vars

\* A drag frame has moved a node that is not selected and whose group is
\* selected without being the pressed node.
DragChildrenWitness ==
    /\ lastOp.op = "frame"
    /\ "drag" \in lastOp.note
    /\ \E i \in SeqIndices(nodes) :
          /\ nodes[i].id \notin selectedNodeIds
          /\ nodes[i].parentId \in selectedNodeIds
          /\ nodes[i].parentId # draggingNodeId
          /\ \E j \in SeqIndices(initialNodes) :
                /\ initialNodes[j].id = nodes[i].id
                /\ (initialNodes[j].x # nodes[i].x \/ initialNodes[j].y # nodes[i].y)

\* C28: after the release of a selection rectangle (no other gesture being
\* pending) the selected node ids are exactly the nodes whose box lies fully
\* inside the world-space image of the rectangle; with no node inside, the
\* selection is empty.
BoxReleaseSelectsInside ==
    [][(/\ lastOp.op \in {"mouseDownCanvas", "mouseMove", "frame"}
        /\ lastOp'.op = "mouseUp"
        /\ lastOp'.note = {"box"})
       => selectedNodeIds' = BoxSelected(selectionBox[1], nodes', transform')]_vars

\* Pointer positions of the reconnect runs, on ThreeNodeDocument: on the
\* left handle of node 2, on the top handle of node 3, and on empty canvas.
ReconnectPoints == {Pos(300, 40), Pos(50, 300), Pos(600, 600)}

\* Reconnect gestures released on the canvas or on a node handle, beside
\* connect gestures, undo and redo.
NextReconnect ==
    \/ \E id \in AllIds : handleEdgeSelect(id)
    \/ \E id \in AllIds, which \in {"from", "to"} : handleEdgeReconnectStart(id, which)
    \/ \E id \in AllIds : handleConnectStart(id, "right")
    \/ \E p \in ReconnectPoints : handleGlobalMouseMove(p)
    \/ Frame
    \/ handleMouseUp
    \/ \E id \in AllIds, i \in 1..Len(Handles) : createConnection(id, Handles[i])
    \/ undo
    \/ redo

SpecReconnect == InitWith(ThreeNodeDocument, ReconnectSteps) /\ [][NextReconnect]_vars

\* A reconnect gesture is the only gesture pending: no node drag, no connect
\* drag, no selection box and no pan was started before the release.
LoneReconnect ==
    /\ reconnectingEdge # <<>>
    /\ draggingNodeId = 0
    /\ connectionStart = <<>>
    /\ selectionBox = <<>>
    /\ ~isPanning

\* The release that ends a reconnect gesture: the pointer-up reaches the
\* canvas, or it falls on the node handle that is the snap target.
ReconnectRelease ==
    \/ lastOp'.op = "mouseUp"
    \/ /\ snapPreview # <<>>
       /\ createConnection(snapPreview[1].nodeId, snapPreview[1].handle)

\* C29: the release of a reconnect gesture on end w of edge E with a snap
\* target rewrites the node id and the handle of E at end w and nothing else
\* of the edge collection (same edges, same order, same other fields);
\* without a snap target it leaves edges, past and future unchanged.
ReconnectRewritesOneEnd ==
    [][(LoneReconnect /\ ReconnectRelease)
       => IF snapPreview # <<>>
          THEN /\ Len(edges') = Len(edges)
               /\ \A i \in SeqIndices(edges) :
                     IF edges[i].id # reconnectingEdge[1].edgeId
                     THEN edges'[i] = edges[i]
                     ELSE IF reconnectingEdge[1].which = "from"
                     THEN edges'[i] = [edges[i] EXCEPT !.from = snapPreview[1].nodeId,
                                                       !.fromHandle = snapPreview[1].handle]
                     ELSE edges'[i] = [edges[i] EXCEPT !.to = snapPreview[1].nodeId,
                                                       !.toHandle = snapPreview[1].handle]
          ELSE UNCHANGED <<edges, past, future>>]_vars

\* C30: in every reachable state the parentId of each node, when set, is the
\* id of a node that exists and is a group.
ParentIsExistingGroup ==
    \A i \in SeqIndices(nodes) :
        nodes[i].parentId # 0
        => \E j \in SeqIndices(nodes) :
              nodes[j].id = nodes[i].parentId /\ IsGroup(nodes[j])

\* C31: in every reachable state an edge whose routing type is step has no
\* breakpoints, and a double-click on the path of a step edge leaves a
\* straight edge whose breakpoints are exactly the clicked point.
StepHasNoBreakpoints ==
    [][/\ \A i \in SeqIndices(edges') :
             TypeOf(edges'[i]) = "step" => BreakpointsOf(edges'[i]) = <<>>
       /\ lastOp'.op = "doubleClickLine"
          => \A i \in SeqIndices(edges) :
                (edges[i].id = lastOp'.id /\ TypeOf(edges[i]) = "step")
                => /\ TypeOf(edges'[i]) = "straight"
                   /\ Len(BreakpointsOf(edges'[i])) = 1]_vars

\* The edge-shape writes of the edge component.
ShapeWrites == {"doubleClickLine", "breakpointMouseMove", "doubleClickBreakpoint"}

\* C32: after an edge-shape write (breakpoint insertion, move or deletion) on
\* an edge that carries a legacy controlPoint, the edge has no controlPoint;
\* when the write deletes its only breakpoint marker, the edge is drawn as
\* the curve its routing type draws without breakpoints and control point.
ShapeWriteMigratesControlPoint ==
    [][lastOp'.op \in ShapeWrites
       => \A i \in SeqIndices(edges) :
             (edges[i].id = lastOp'.id /\ ControlPointOf(edges[i]) # <<>>)
             => /\ ControlPointOf(edges'[i]) = <<>>
                /\ (lastOp'.op = "doubleClickBreakpoint" /\ Len(BreakpointsOf(edges[i])) = 1)
                   => PathOf(edges'[i], nodes')
                      = getEdgePath(nodes'[1], nodes'[2], edges[i].fromHandle,
                                    edges[i].toHandle, <<>>, TypeOf(edges[i]), <<>>)]_vars

\* The breakpoints an edge record stores, none when it has no such field.
StoredBreakpoints(e) == IF "breakpoints" \in DOMAIN e THEN e.breakpoints ELSE <<>>

\* The quadratic curve between the handle points of edge e through point p.
QuadraticThrough(e, ns, p) ==
    LET source == FindFirst(ns, LAMBDA n : n.id = e.from)[1]
        target == FindFirst(ns, LAMBDA n : n.id = e.to)[1]
    IN  <<PathCmd("M", <<getHandlePosition(source, e.fromHandle)>>),
          PathCmd("Q", <<InPathUnits(p), getHandlePosition(target, e.toHandle)>>)>>

\* C33: the path drawn for a bezier edge is the quadratic curve through its
\* single shaping point when the edge has exactly one breakpoint and when it
\* has only a legacy controlPoint, the default cubic curve when it has
\* neither, and a polyline only when it has two or more breakpoints.
BezierPathByShapingPoints ==
    \A i \in SeqIndices(edges) :
        (EdgeShown(edges[i]) /\ TypeOf(edges[i]) \in {"", "bezier"})
        => LET e    == edges[i]
               bps  == StoredBreakpoints(e)
               cp   == ControlPointOf(e)
               path == PathOf(e, nodes)
           IN  /\ Len(bps) = 1 => path = QuadraticThrough(e, nodes, bps[1])
               /\ (Len(bps) = 0 /\ cp # <<>>) => path = QuadraticThrough(e, nodes, cp[1])
               /\ (Len(bps) = 0 /\ cp = <<>>) => path[2].cmd = "C"
               /\ (\A k \in 2..Len(path) : path[k].cmd = "L") => Len(bps) >= 2

\* The handles of the nodes of ns other than the excluded one, as pairs of a
\* list index and a handle index, and those nearer to point than threshold.
HandleSlots(ns, excludeNodeId) ==
    {h \in (1..Len(ns)) \X (1..Len(Handles)) : ns[h[1]].id # excludeNodeId}

SlotDist(ns, h, point) == Dist2Sq(ns[h[1]], Handles[h[2]], point)

SlotsWithin(ns, excludeNodeId, point, threshold) ==
    {h \in HandleSlots(ns, excludeNodeId) : SlotDist(ns, h, point) < 4 * threshold * threshold}

\* h comes before g in the iteration order: node list order, then top,
\* right, bottom, left.
SlotBefore(h, g) == h[1] < g[1] \/ (h[1] = g[1] /\ h[2] < g[2])

\* The result the description requires for one call.
NearestAsDescribed(point, ns, excludeNodeId, threshold, result) ==
    LET within == SlotsWithin(ns, excludeNodeId, point, threshold)
    IN  IF within = {} THEN result = <<>>
        ELSE \E h \in within :
                /\ \A g \in HandleSlots(ns, excludeNodeId) :
                      /\ SlotDist(ns, h, point) <= SlotDist(ns, g, point)
                      /\ SlotDist(ns, g, point) = SlotDist(ns, h, point)
                         => (g = h \/ SlotBefore(h, g))
                /\ result = <<[nodeId |-> ns[h[1]].id, handle |-> Handles[h[2]]]>>

\* C34: getNearestHandle returns none exactly when no handle of a node other
\* than the excluded one is nearer to the point than threshold; otherwise it
\* returns the handle at minimal distance and, among handles at that
\* distance, the first in iteration order.
NearestIsFirstMinimal ==
    lastOp.op = "getNearestHandle"
    => \A point \in GeometryPoints, threshold \in GeometryThresholds :
           NearestAsDescribed(point, nodes, lastOp.id, threshold,
                              getNearestHandle(point, nodes, lastOp.id, threshold))

\* A call returned a handle while a later handle of the scan is at the same
\* minimal distance from the point.
NearestTieWitness ==
    /\ lastOp.op = "getNearestHandle"
    /\ snapPreview # <<>>
    /\ \E point \in GeometryPoints, threshold \in GeometryThresholds :
           /\ snapPreview = getNearestHandle(point, nodes, lastOp.id, threshold)
           /\ \E h, g \in SlotsWithin(nodes, lastOp.id, point, threshold) :
                 /\ SlotBefore(h, g)
                 /\ snapPreview[1] = [nodeId |-> nodes[h[1]].id, handle |-> Handles[h[2]]]
                 /\ [nodeId |-> nodes[g[1]].id, handle |-> Handles[g[2]]] # snapPreview[1]
                 /\ SlotDist(nodes, g, point) = SlotDist(nodes, h, point)

\* Each of the four values of box a differs from that of box b by less
\* than 1 unit.
BoxWithinOne(a, b) ==
    /\ Abs(a.x - b.x) < 1
    /\ Abs(a.y - b.y) < 1
    /\ Abs(a.width - b.width) < 1
    /\ Abs(a.height - b.height) < 1

\* C35: the recomputation of the group bounds at a drag release leaves the
\* stored box of a group with children unchanged when the padded box of its
\* children differs from it by less than 1 unit in x, y, width and height,
\* and overwrites it with that padded box when any of the four differs by 1
\* or more.
RecalcWritesChangedBox ==
    [][(lastOp'.op = "mouseUp" /\ "drag" \in lastOp'.note)
       => \A i \in SeqIndices(nodes') :
             LET children == ChildrenOf(nodes', nodes'[i].id)
             IN  (/\ IsGroup(nodes'[i])
                  /\ children # <<>>
                  /\ \A k \in SeqIndices(children) : ~IsGroup(children[k]))
                 => LET box == PaddedBox(children, RecalcPadding)
                    IN  IF BoxWithinOne(box, BoxOf(nodes[i]))
                        THEN BoxOf(nodes'[i]) = BoxOf(nodes[i])
                        ELSE BoxOf(nodes'[i]) = box]_vars

\* C36: in every reachable state every selected node id is the id of a node
\* of the node collection, and the selected edge id, when set, is the id of
\* an edge of the edge collection.
SelectionExists ==
    /\ selectedNodeIds \subseteq NodeIds(nodes)
    /\ selectedEdgeId # 0 => selectedEdgeId \in EdgeIds(edges)

\* The handlers of a pointer-up: on the canvas or a node (handleMouseUp), or
\* on a node handle (createConnection).
PointerUps == {"mouseUp", "createConnection"}

\* The last handler was a pointer-up at the place of the pending pointer
\* move: any release that reached handleMouseUp, or a release on a node
\* handle that lies at the position of that move.
PointerUpAtPendingMove ==
    /\ lastOp.op \in PointerUps
    /\ lastOp.op = "createConnection"
       => /\ raf # <<>>
          /\ \E i \in SeqIndices(nodes), k \in 1..Len(Handles) :
                /\ nodes[i].id = lastOp.id
                /\ Dist2Sq(nodes[i], Handles[k], screenToWorld(raf[1], transform)) = 0

\* C37: a pointer-move pass that is pending when the pointer-up is handled
\* does not run after it: the step that follows a pointer-up is not a pass
\* that changes a node position, the viewport transform, the selection
\* rectangle or the snap preview.
NoFrameAfterPointerUp ==
    [][(PointerUpAtPendingMove /\ lastOp'.op = "frame")
       => UNCHANGED <<nodes, transform, selectionBox, snapPreview>>]_vars

\* C38: whenever the busy flag of the idea expansion is set, it is cleared
\* again once the backend call has returned, with a result or with an error,
\* so that handleAiExpand passes its busy test again.
BusyEventuallyCleared == isAiLoading ~> (~isAiLoading /\ aiCall = <<>>)

\* A request was started and its backend call has returned with an error:
\* the busy flag is clear.
BusyClearedWitness ==
    /\ lastOp.op = "aiReject"
    /\ ~isAiLoading
    /\ aiCall = <<>>

\* The points a path of M and L commands runs through.
PathPoints(path) == [k \in 1..Len(path) |-> path[k].points[1]]

\* The shown edges whose routing type is step.
StepEdges == {i \in SeqIndices(edges) : EdgeShown(edges[i]) /\ TypeOf(edges[i]) = "step"}

\* C39: for every two nodes and every pair of handle sides, the step path
\* starts at the source handle point, ends at the target handle point, and
\* each of its segments is parallel to the x axis or to the y axis.
StepPathIsOrthogonal ==
    \A i \in StepEdges :
        LET e      == edges[i]
            path   == PathOf(e, nodes)
            pts    == PathPoints(path)
            source == FindFirst(nodes, LAMBDA n : n.id = e.from)[1]
            target == FindFirst(nodes, LAMBDA n : n.id = e.to)[1]
        IN  /\ path[1].cmd = "M"
            /\ \A k \in 2..Len(path) : path[k].cmd = "L"
            /\ pts[1] = getHandlePosition(source, e.fromHandle)
            /\ pts[Len(pts)] = getHandlePosition(target, e.toHandle)
            /\ \A k \in 1..(Len(pts) - 1) :
                  pts[k].x = pts[k + 1].x \/ pts[k].y = pts[k + 1].y

\* After a node drag, a step edge joins a vertical to a horizontal handle
\* whose points differ in x and in y, over a single corner.
StepPathWitness ==
    /\ lastOp.op = "mouseUp"
    /\ "moved" \in lastOp.note
    /\ \E i \in StepEdges :
          LET pts == PathPoints(PathOf(edges[i], nodes))
          IN  /\ IsVertical(edges[i].fromHandle) # IsVertical(edges[i].toHandle)
              /\ Len(pts) = 5
              /\ pts[1].x # pts[5].x
              /\ pts[1].y # pts[5].y

\* The nodes of ns whose ids are in ids, as a set of records.
NodesIn(ns, ids) == {ns[i] : i \in {j \in SeqIndices(ns) : ns[j].id \in ids}}

\* Boxes a and b share an inner point.
BoxesOverlap(a, b) ==
    /\ a.x < b.x + b.width
    /\ b.x < a.x + a.width
    /\ a.y < b.y + b.height
    /\ b.y < a.y + a.height

\* The grid the description requires of the laid-out nodes, n of them: the
\* nodes of one row (equal y) are at least 20 apart horizontally, the rows
\* at least 20 apart vertically, no two boxes overlap, and no row holds more
\* than ceil(sqrt(n)) nodes.
IsGrid(laid, n) ==
    /\ \A a, b \in laid :
          a.id # b.id
          => /\ ~BoxesOverlap(a, b)
             /\ a.y = b.y => (a.x + a.width + GroupGap <= b.x \/ b.x + b.width + GroupGap <= a.x)
             /\ a.y < b.y => a.y + a.height + GroupGap <= b.y
    /\ \E c \in 1..n :
          /\ c * c >= n
          /\ (c - 1) * (c - 1) < n
          /\ \A a \in laid : Cardinality({b \in laid : b.y = a.y}) <= c

\* C40: after handleCreateGroup on a selection of nodes of positive width
\* and height the selected nodes form such a grid, and their minimal x and
\* minimal y are those of the selected nodes before the call.
CreateGroupLaysOutGrid ==
    [][(lastOp'.op = "createGroup" /\ NodesIn(nodes, selectedNodeIds) # {})
       => LET before == NodesIn(nodes, selectedNodeIds)
              laid   == NodesIn(nodes', selectedNodeIds)
          IN  /\ Cardinality(laid) = Cardinality(before)
              /\ IsGrid(laid, Cardinality(before))
              /\ MinOver({a.x : a \in laid}) = MinOver({a.x : a \in before})
              /\ MinOver({a.y : a \in laid}) = MinOver({a.y : a \in before})]_vars

\* A group was created from five nodes, two of which overlapped: they lie
\* in two rows, three and two.
CreateGroupGridWitness ==
    /\ lastOp.op = "createGroup"
    /\ LET children == NodesIn(nodes, {nodes[i].id : i \in {j \in SeqIndices(nodes) :
                                           nodes[j].parentId = lastOp.id}})
       IN  /\ Cardinality(children) = 5
           /\ Cardinality({a.y : a \in children}) = 2
           /\ \E a \in children : Cardinality({b \in children : b.y = a.y}) = 3

====
